---- MODULE Spec2Model ----
(***************************************************************************)
(* AnkerBleService (anker-ble.ts): the FF09 protocol engine of KinoBench.  *)
(*                                                                         *)
(* The service object, its single pending-response slot, the promises and  *)
(* timers it leaves in the event loop, and the async functions running on  *)
(* it (connectToDevice/handshake, requestStatus, setChargerPortSwitch) are *)
(* modelled as one state machine.  Every handler is an operator from world *)
(* to world, so that a handler's calls compose in the order of the code.   *)
(*                                                                         *)
(* Units: voltage in mV, current in mA, power and totals in 0.1 W,         *)
(* battery in 0.01 %.  Bytes are 0..255, byte strings are sequences.       *)
(* AES-CBC is symbolic: a ciphertext remembers key, IV and plaintext and   *)
(* decrypts only under the same key and IV.                                *)
(***************************************************************************)
EXTENDS Integers, Sequences, FiniteSets, TLC

(* ------------------------------------------------------------------ *)
(* Protocol constants                                                  *)
(* ------------------------------------------------------------------ *)
FRAME_HEADER_1 == 255
FRAME_HEADER_2 == 9
COMMAND_HEADER_1 == 3
COMMAND_HEADER_2 == 0
COMMAND_FLAG_ENCRYPTED == 64
COMMAND_FLAG_ACK == 8
GROUP_HANDSHAKE == 1
GROUP_ACTION == 15
GROUP_STATUS == 17
CMD_HANDSHAKE_1 == 1
CMD_HANDSHAKE_2 == 3
CMD_HANDSHAKE_INFO == 41
CMD_HANDSHAKE_4 == 5
CMD_SESSION_KEY == 34
CMD_STATUS_FULL == 1280
CMD_STATUS_ALT_FULL == 3328
CMD_STATUS_LIVE == 1294
CMD_CHARGER_STATUS_FULL == 512
CMD_CHARGER_STATUS_LIVE == 768
CMD_CHARGER_STATUS_AUX == 522
CMD_CHARGER_PORT_SWITCH == 519

\* TLV tags
TagA1 == 161
TagA2 == 162
TagA3 == 163
TagA4 == 164
TagA5 == 165
TagA6 == 166
TagA7 == 167
TagA8 == 168
TagA9 == 169
TagAE == 174
TagB3 == 179

\* profile.statusCommands
StatusCommands(profile) ==
  IF profile = "Charger"
    THEN <<CMD_CHARGER_STATUS_FULL, CMD_CHARGER_STATUS_AUX, CMD_CHARGER_STATUS_LIVE>>
    ELSE <<CMD_STATUS_FULL>>

\* hexToBytes(A2_STATIC_HEX.substring(0, 32)): the first 16 bytes of A2.
InitialKey == <<50, 99, 51, 55, 55, 100, 102, 97, 48, 57, 99, 100, 98, 55, 57, 50>>

\* null for activeKey / activeIv
NoKey == <<>>

(* ------------------------------------------------------------------ *)
(* Byte helpers and the TLV codec                                      *)
(* ------------------------------------------------------------------ *)
Min(a, b) == IF a < b THEN a ELSE b
Max(a, b) == IF a > b THEN a ELSE b

Zeros(n) == [i \in 1..n |-> 0]

\* data[index] | data[index+1] << 8, index 0-based; 0 when out of range
parseU16LE(data, index) ==
  IF index + 1 >= Len(data) THEN 0 ELSE data[index + 1] + 256 * data[index + 2]

\* a Map.set(k, v) that keeps the value of a key already present
MapSetIfAbsent(m, k, v) ==
  [x \in (DOMAIN m) \cup {k} |-> IF x \in DOMAIN m THEN m[x] ELSE v]

\* Map.set(k, v)
MapSet(m, k, v) == [x \in (DOMAIN m) \cup {k} |-> IF x = k THEN v ELSE m[x]]

EmptyMap == [x \in {} |-> <<>>]

RECURSIVE buildTlvBuffer(_)
buildTlvBuffer(tlvArray) ==
  IF tlvArray = <<>> THEN <<>>
  ELSE <<Head(tlvArray).type % 256, Len(Head(tlvArray).value) % 256>>
         \o Head(tlvArray).value \o buildTlvBuffer(Tail(tlvArray))

RECURSIVE parseTlvFrom(_, _, _)
parseTlvFrom(data, offset, map) ==
  IF offset + 1 < Len(data)
    THEN LET type == data[offset + 1]
             len  == data[offset + 2]
         IN IF offset + 2 + len > Len(data)
              THEN map
              ELSE parseTlvFrom(data, offset + 2 + len,
                                MapSet(map, type, SubSeq(data, offset + 3, offset + 2 + len)))
    ELSE map

\* parseTlv without the overrun check: the last record is cut at the end of
\* the buffer (slice clamps)
RECURSIVE parseTlvLenientFrom(_, _, _)
parseTlvLenientFrom(data, offset, map) ==
  IF offset + 1 < Len(data)
    THEN LET type == data[offset + 1]
             len  == data[offset + 2]
         IN parseTlvLenientFrom(data, offset + 2 + len,
              MapSet(map, type, SubSeq(data, offset + 3, Min(offset + 2 + len, Len(data)))))
    ELSE map

parseTlvLenient(data) == parseTlvLenientFrom(data, 0, EmptyMap)

parseTlv(data) == parseTlvFrom(data, 0, EmptyMap)

\* parseDecryptedTlv that never skips the pad byte
parseDecryptedTlvNoSkip(data) == parseTlv(data)

parseDecryptedTlv(data) ==
  LET offset == IF Len(data) > 0 /\ data[1] = 0 THEN 1 ELSE 0
  IN parseTlv(SubSeq(data, offset + 1, Len(data)))

\* The UTF-8 decoder of TextDecoder: the bytes of b from index i on, with the
\* code point cp under construction, needed continuation bytes of which seen
\* were read, and the range lower..upper allowed for the next one.  A
\* malformed sequence gives U+FFFD and the offending byte is read again.
RECURSIVE Utf8Decode(_, _, _, _, _, _, _)
Utf8Decode(b, i, cp, needed, seen, lower, upper) ==
  IF i > Len(b) THEN (IF needed # 0 THEN <<65533>> ELSE <<>>)
  ELSE LET x == b[i]
       IN IF needed = 0
            THEN IF x <= 127 THEN <<x>> \o Utf8Decode(b, i + 1, 0, 0, 0, 128, 191)
                 ELSE IF x \in 194..223
                   THEN Utf8Decode(b, i + 1, x % 32, 1, 0, 128, 191)
                 ELSE IF x \in 224..239
                   THEN Utf8Decode(b, i + 1, x % 16, 2, 0,
                                   IF x = 224 THEN 160 ELSE 128,
                                   IF x = 237 THEN 159 ELSE 191)
                 ELSE IF x \in 240..244
                   THEN Utf8Decode(b, i + 1, x % 8, 3, 0,
                                   IF x = 240 THEN 144 ELSE 128,
                                   IF x = 244 THEN 143 ELSE 191)
                 ELSE <<65533>> \o Utf8Decode(b, i + 1, 0, 0, 0, 128, 191)
          ELSE IF x \notin lower..upper
            THEN <<65533>> \o Utf8Decode(b, i, 0, 0, 0, 128, 191)
          ELSE IF seen + 1 = needed
            THEN <<cp * 64 + (x % 64)>> \o Utf8Decode(b, i + 1, 0, 0, 0, 128, 191)
          ELSE Utf8Decode(b, i + 1, cp * 64 + (x % 64), needed, seen + 1, 128, 191)

\* new TextDecoder().decode(bytes): a string as its code points; a leading
\* byte order mark is dropped
TextDecode(bytes) ==
  LET s == Utf8Decode(bytes, 1, 0, 0, 0, 128, 191)
  IN IF s # <<>> /\ s[1] = 65279 THEN Tail(s) ELSE s

\* the UTF-8 bytes of one code point
Utf8Bytes(c) ==
  IF c < 128 THEN <<c>>
  ELSE IF c < 2048 THEN <<192 + (c \div 64), 128 + (c % 64)>>
  ELSE IF c < 65536 THEN <<224 + (c \div 4096), 128 + ((c \div 64) % 64), 128 + (c % 64)>>
  ELSE <<240 + (c \div 262144), 128 + ((c \div 4096) % 64), 128 + ((c \div 64) % 64),
         128 + (c % 64)>>

\* new TextEncoder().encode(s)
RECURSIVE TextEncode(_)
TextEncode(s) == IF s = <<>> THEN <<>> ELSE Utf8Bytes(Head(s)) \o TextEncode(Tail(s))

normalizeIvFromSerial(serial) ==
  LET serialBytes == TextEncode(serial)
  IN IF Len(serialBytes) = 16 THEN serialBytes
     ELSE IF Len(serialBytes) > 16 THEN SubSeq(serialBytes, 1, 16)
     ELSE serialBytes \o Zeros(16 - Len(serialBytes))

\* isAckOnlyStatusTlv that recognises no response as an acknowledgement
isAckOnlyNever(tlv) == FALSE

isAckOnlyStatusTlv(tlv) ==
  /\ Cardinality(DOMAIN tlv) = 1
  /\ TagA1 \in DOMAIN tlv
  /\ Len(tlv[TagA1]) = 1

(* ------------------------------------------------------------------ *)
(* Power status and its decoders                                       *)
(* ------------------------------------------------------------------ *)
getModeString(mode) ==
  IF mode = 1 THEN "Input" ELSE IF mode = 2 THEN "Output" ELSE "Off"

emptyPortData == [mode |-> "Off", voltage |-> 0, current |-> 0, power |-> 0]

\* Math.round(x / d) for x >= 0
RoundDiv(x, d) == (2 * x + d) \div (2 * d)

parsePortData(value) ==
  IF Len(value) < 7 THEN emptyPortData
  ELSE LET dV == value[4] + 256 * value[5]
           dA == value[6] + 256 * value[7]
       IN [mode |-> getModeString(value[3]),
           voltage |-> dV * 100,
           current |-> dA * 100,
           power |-> RoundDiv(dV * dA, 10)]

\* parseA2687PortData that goes by the enabled flag alone
parseA2687PortDataByFlag(value) ==
  IF Len(value) < 8 \/ value[2] = 0 THEN emptyPortData
  ELSE [mode |-> "Output",
        voltage |-> parseU16LE(value, 2),
        current |-> parseU16LE(value, 4),
        power |-> RoundDiv(parseU16LE(value, 2) * parseU16LE(value, 4), 100000)]

parseA2687PortData(value) ==
  IF Len(value) < 8 THEN emptyPortData
  ELSE LET millivolts  == parseU16LE(value, 2)
           currentRaw  == parseU16LE(value, 4)
           enabledFlag == value[2]
           isEffectivelyOff == enabledFlag = 0 \/ (millivolts = 0 /\ currentRaw = 0)
       IN IF isEffectivelyOff THEN emptyPortData
          ELSE [mode |-> "Output",
                voltage |-> millivolts,
                current |-> currentRaw,
                power |-> RoundDiv(millivolts * currentRaw, 100000)]

emptyPowerStatus ==
  [batteryPercent |-> 0, temperature |-> 0, totalInputW |-> 0, totalOutputW |-> 0,
   usbC1 |-> emptyPortData, usbC2 |-> emptyPortData, usbA |-> emptyPortData]

clampPercent(value) == Max(0, Min(10000, value))

\* null is -1
parseBatteryPercent(value) ==
  IF Len(value) < 10 THEN -1
  ELSE clampPercent(value[9] * 100 + value[10])


getSolixPortModeString(mode) ==
  IF mode = 1 THEN "Output" ELSE IF mode = 2 THEN "Input" ELSE "Off"

(* ------------------------------------------------------------------ *)
(* Bounds of the environment                                           *)
(* ------------------------------------------------------------------ *)
\* connection attempts on one service object
MaxConnects == 2
\* notifications and read values the device delivers in one behaviour
MaxNotifs == 6
\* public calls (requestStatus / setChargerPortSwitch) the application makes
MaxCalls == 1
\* public calls, and notifications, when calls may overlap
MaxOverlapCalls == 2
MaxOverlapNotifs == 1
\* repetitions of negotiation packet 0 in the ECDH fallback
MaxRetries == 1
\* notifications the device delivers to an established session
MaxStatusNotifs == 2

(* ------------------------------------------------------------------ *)
(* State                                                               *)
(* ------------------------------------------------------------------ *)
VARIABLES
  svc,      \* the fields of the AnkerBleService object
  waiters,  \* owners of the unsettled waitForNextNotification promises (timer armed)
  tasks,    \* WebCrypto / ECDH operations started by a handler and not yet completed
  th,       \* the async functions in progress: connectToDevice and the public calls
  wire,     \* log of the connection attempt: writes to TX and notification marks
  out,      \* callbacks invoked and promises settled by the last step
  env,      \* environment counters, the transport's link state
  codec     \* the framing functions at work: their input and what they returned

vars == <<svc, waiters, tasks, th, wire, out, env, codec>>

World == [svc |-> svc, waiters |-> waiters, tasks |-> tasks, th |-> th,
          wire |-> wire, out |-> <<>>, env |-> env]

Commit(w) ==
  /\ svc' = w.svc
  /\ waiters' = w.waiters
  /\ tasks' = w.tasks
  /\ th' = w.th
  /\ wire' = w.wire
  /\ out' = w.out
  /\ env' = w.env
  /\ codec' = codec

\* the bytes of a decrypted Solix telemetry packet that the parser reads
NoSol == [n |-> 0, m139 |-> 0, m143 |-> 0, m147 |-> 0, b160 |-> 0, b131 |-> 0,
          w65 |-> 0, w70 |-> 0, w75 |-> 0, w80 |-> 0, p35 |-> 0, p40 |-> 0, p45 |-> 0]

\* an input of the framing functions: a payload to frame as it is (raw), the
\* arguments of buildRequestContent (request) or of buildEncryptedPayload
\* (encrypted)
NoInput == [kind |-> "none", payload |-> <<>>, command |-> 0, group |-> 0,
            tlvArray |-> <<>>, cipherText |-> <<>>, sol |-> NoSol]

\* op: the last function applied; payload, frame, received: what
\* build*, framePacket and the slice of handleNotification returned; value:
\* what a decoder returned
NoCodec == [op |-> "none", input |-> NoInput, payload |-> <<>>, frame |-> <<>>,
            received |-> <<>>, value |-> <<>>]

Threads == {"hs", "u1", "u2"}
NoOwner == "none"

IdleThread == [op |-> "none", pc |-> "idle", idx |-> 0, att |-> 0,
               key |-> NoKey, iv |-> NoKey, port |-> "usbC1", en |-> FALSE]

\* a ciphertext: AES-CBC(key, iv, pt) of n bytes; n is kept apart so that a
\* truncated or foreign ciphertext can be told from a well-formed one
NoCt == [key |-> NoKey, iv |-> NoKey, pt |-> <<>>, n |-> 0]

CipherLen(pt) == 16 * ((Len(pt) \div 16) + 1)

Encrypt(key, iv, pt) == [key |-> key, iv |-> iv, pt |-> pt, n |-> CipherLen(pt)]

\* A notification (rawData):
\*   len    rawData.byteLength
\*   hello  rawData is the 5 bytes "hello"
\*   magic  rawData[0..1] = FF 09
\*   hi, lo rawData[7], rawData[8] (command high and low byte of the payload)
\*   plain  rawData.slice(10, len - 1) of an unencrypted frame
\*   pre    bytes between the 5-byte command header and the ciphertext
\*   ct     the ciphertext carried
\*   shared the ciphertext of a Solix telemetry packet is under the ECDH key
\*   sol    the plaintext of a Solix telemetry packet
\*   pub    rawData.slice(12, len - 1) is a valid P-256 point (X || Y)
NoFrame == [len |-> 0, hello |-> FALSE, magic |-> FALSE, hi |-> 0, lo |-> 0,
            plain |-> <<>>, pre |-> 0, ct |-> NoCt, shared |-> FALSE, sol |-> NoSol,
            pub |-> FALSE]

\* A pending operation: k its kind, id the notification it serves (0: none)
NoTask == [k |-> "none", id |-> 0, f |-> NoFrame, cmd |-> 0, i |-> 0,
           key |-> NoKey, iv |-> NoKey, st |-> "INACTIVE", owner |-> NoOwner]

\* the notification being handled, counted from the last one the device sends
NotificationId(w) == w.env.notifs + 1

Event(e, a, d) == [e |-> e, a |-> a, d |-> d]

Emit(w, e, a, d) == [w EXCEPT !.out = Append(@, Event(e, a, d))]

\* a write (t = "w") is an output of the step; while connectToDevice is in
\* progress writes, notifications ("n") and response timeouts ("x") are also
\* kept, in order, in the log
Mark(w, t, cmd, enc, key, by) ==
  LET m  == [t |-> t, cmd |-> cmd, enc |-> enc, key |-> key, by |-> by]
      w1 == IF w.th["hs"].pc # "idle" THEN [w EXCEPT !.wire = Append(@, m)] ELSE w
  IN IF t = "w" THEN Emit(w1, "write", by, m) ELSE w1

\* a notification mark; consecutive marks are kept as one
MarkNotification(w) ==
  IF w.wire # <<>> /\ w.wire[Len(w.wire)].t = "n" THEN w
  ELSE Mark(w, "n", 0, FALSE, NoKey, "dev")

InitSvc(profile) ==
  [profile |-> profile,
   connected |-> FALSE,
   cryptoState |-> "INACTIVE",
   activeKey |-> NoKey,
   activeIv |-> NoKey,
   sessionUtcBytes |-> FALSE,
   serialNumber |-> <<>>,
   lastReceivedCommand |-> -1,
   lastReceivedWasEncrypted |-> FALSE,
   decryptSuccessCount |-> 0,
   decryptErrorCount |-> 0,
   lastPowerStatus |-> emptyPowerStatus,
   chargerStatusSource |-> "Pending",
   chargerTelemetrySeenAt |-> FALSE,
   solixNegotiationStartedAt |-> FALSE,
   solixLastInitiationAt |-> FALSE,
   solixNegotiationPacketCount |-> 0,
   solixSharedKey |-> FALSE,
   resolveNextNotification |-> NoOwner]

\* connects, notifs, calls, retries: what the environment may still do;
\* readable: notifyChar.properties.read of the device
InitEnv(readable, connects, notifs, calls) ==
  [connects |-> connects, notifs |-> notifs, calls |-> calls, retries |-> MaxRetries,
   link |-> FALSE, gattEvent |-> FALSE, readable |-> readable]

(* ------------------------------------------------------------------ *)
(* Disconnect                                                          *)
(* ------------------------------------------------------------------ *)
\* handleDisconnect that leaves the crypto context and the serial installed
handleDisconnectKeepsContext(w) ==
  LET w1 == [w EXCEPT
        !.svc.connected = FALSE,
        !.svc.cryptoState = "INACTIVE",
        !.svc.lastPowerStatus = emptyPowerStatus,
        !.svc.resolveNextNotification = NoOwner]
  IN Emit(Emit(w1, "crypto", "INACTIVE", 0), "connection", "false", 0)

handleDisconnect(w) ==
  LET w1 == [w EXCEPT
        !.svc.connected = FALSE,
        !.svc.cryptoState = "INACTIVE",
        !.svc.activeKey = NoKey,
        !.svc.activeIv = NoKey,
        !.svc.sessionUtcBytes = FALSE,
        !.svc.serialNumber = <<>>,
        !.svc.lastReceivedCommand = -1,
        !.svc.lastReceivedWasEncrypted = FALSE,
        !.svc.decryptSuccessCount = 0,
        !.svc.decryptErrorCount = 0,
        !.svc.lastPowerStatus = emptyPowerStatus,
        !.svc.chargerStatusSource = "Pending",
        !.svc.chargerTelemetrySeenAt = FALSE,
        !.svc.solixNegotiationStartedAt = FALSE,
        !.svc.solixLastInitiationAt = FALSE,
        !.svc.solixNegotiationPacketCount = 0,
        !.svc.solixSharedKey = FALSE,
        !.svc.resolveNextNotification = NoOwner]
  IN Emit(Emit(w1, "crypto", "INACTIVE", 0), "connection", "false", 0)

\* disconnect(): gatt.disconnect() when the link is up (the transport then
\* dispatches gattserverdisconnected), then handleDisconnect()
disconnect(w) ==
  LET w1 == IF w.svc.connected /\ w.env.link
              THEN [w EXCEPT !.env.link = FALSE, !.env.gattEvent = TRUE]
              ELSE w
  IN handleDisconnect(w1)

(* ------------------------------------------------------------------ *)
(* Exceptions and the end of an async function                         *)
(* ------------------------------------------------------------------ *)
FallbackPcs == {"fb_w0", "fb_wait0", "fb_key", "fb_tel"}

\* a public call returns or rejects to the application
EndCall(w, t, how, msg) ==
  Emit([w EXCEPT !.th[t] = IdleThread], how, t, msg)

\* connectToDevice's catch: disconnect(), onError(msg), rethrow
ConnFail(w, msg) ==
  LET w1 == disconnect(w)
      w2 == Emit(w1, "error", msg, 0)
  IN EndCall(w2, "hs", "rejected", msg)

\* sendRawCommandPacket(hex): silently nothing when writeChar is null
sendRawCommandPacket(w, k) ==
  IF ~w.svc.connected THEN w ELSE Mark(w, "w", k, FALSE, NoKey, "nego")

\* startSolixNegotiationIfNeeded without the check of SOLIX_NEGOTIATION_RETRY_MS:
\* packet 0 goes out on every pass of the loop
startSolixNegotiationIfNeededNoInterval(w, due) ==
  IF w.svc.solixSharedKey THEN w
  ELSE LET w1 == IF ~w.svc.solixNegotiationStartedAt
                   THEN [w EXCEPT !.svc.solixNegotiationStartedAt = TRUE,
                                  !.svc.solixLastInitiationAt = FALSE,
                                  !.svc.solixNegotiationPacketCount = 0]
                   ELSE w
           w2 == [w1 EXCEPT !.svc.solixLastInitiationAt = TRUE]
       IN IF w2.svc.connected
            THEN [sendRawCommandPacket(w2, 0) EXCEPT !.th["hs"].pc = "fb_w0"]
            ELSE w2

\* startSolixNegotiationIfNeeded() as called from the first loop of
\* startChargerEncryptedSession; due: 3 s have passed since the last packet 0
startSolixNegotiationIfNeeded(w, due) ==
  IF w.svc.solixSharedKey THEN w
  ELSE LET w1 == IF ~w.svc.solixNegotiationStartedAt
                   THEN [w EXCEPT !.svc.solixNegotiationStartedAt = TRUE,
                                  !.svc.solixLastInitiationAt = FALSE,
                                  !.svc.solixNegotiationPacketCount = 0]
                   ELSE w
       IN IF ~w1.svc.solixLastInitiationAt \/ due
            THEN LET w2 == [w1 EXCEPT !.svc.solixLastInitiationAt = TRUE]
                 IN IF w2.svc.connected
                      THEN [sendRawCommandPacket(w2, 0) EXCEPT !.th["hs"].pc = "fb_w0"]
                      ELSE w2
            ELSE w1

\* the three polling loops of startChargerEncryptedSession at a wake-up of the
\* loop `from` (0: first response, 1: shared key, 2: telemetry); the deadline
\* checks are the action FallbackTimeout
ChargerSessionLoops(w, due, from) ==
  IF from = 0 /\ w.svc.solixNegotiationPacketCount = 0
    THEN startSolixNegotiationIfNeeded([w EXCEPT !.th["hs"].pc = "fb_wait0"], due)
  ELSE IF from <= 1 /\ ~w.svc.solixSharedKey
    THEN [w EXCEPT !.th["hs"].pc = "fb_key"]
  ELSE IF ~w.svc.chargerTelemetrySeenAt
    THEN [w EXCEPT !.th["hs"].pc = "fb_tel"]
  ELSE EndCall(w, "hs", "returned", "connectToDevice")

startChargerEncryptedSession(w) ==
  LET w1 == [w EXCEPT
        !.svc.solixNegotiationStartedAt = TRUE,
        !.svc.solixLastInitiationAt = FALSE,
        !.svc.solixNegotiationPacketCount = 0,
        !.svc.solixSharedKey = FALSE,
        !.svc.chargerTelemetrySeenAt = FALSE,
        !.svc.chargerStatusSource = "Pending",
        !.svc.cryptoState = "Initial"]
  IN ChargerSessionLoops(Emit(w1, "crypto", "Initial", 0), FALSE, 0)

\* the poll loop of setChargerPortSwitch starts (after the try/catch)
PortSwitchPoll(w, t) == [w EXCEPT !.th[t].pc = "ps_sleep1", !.th[t].att = 1]

\* an exception of handshake() that goes to the catch of connectToDevice for
\* the charger too
ThrowNoFallback(w, t, msg) ==
  IF t = "hs" THEN ConnFail(w, msg)
  ELSE IF w.th[t].op = "portSwitch" /\ w.th[t].pc \in {"ps_w", "ps_a"}
    THEN PortSwitchPoll(w, t)
  ELSE EndCall(w, t, "rejected", msg)

\* an exception leaves the awaited call of thread t
Throw(w, t, msg) ==
  IF t = "hs"
    THEN IF w.th[t].pc \in FallbackPcs \/ w.svc.profile # "Charger"
           THEN ConnFail(w, msg)
           ELSE startChargerEncryptedSession(w)
  ELSE IF w.th[t].op = "portSwitch" /\ w.th[t].pc \in {"ps_w", "ps_a"}
    THEN PortSwitchPoll(w, t)
  ELSE EndCall(w, t, "rejected", msg)

\* sendPayload(payload) up to the pending write
sendPayload(w, t, cmd, enc, key, pc) ==
  LET w1 == [w EXCEPT !.th[t].pc = pc]
  IN IF ~w.svc.connected THEN Throw(w1, t, "Not connected")
     ELSE Mark(w1, "w", cmd, enc, key, t)

(* ------------------------------------------------------------------ *)
(* requestStatus                                                       *)
(* ------------------------------------------------------------------ *)
\* requestStatus() returns to the async function that awaited it
RequestStatusReturn(w, t) ==
  IF w.th[t].op = "portSwitch" THEN [w EXCEPT !.th[t].pc = "ps_sleep2"]
  ELSE EndCall(w, t, "returned", w.th[t].op)

\* sendChargerStatusProbe(): plain probes, from the i-th status command on
sendChargerStatusProbe(w, t, i) ==
  LET cmds == StatusCommands(w.svc.profile)
  IN IF i > Len(cmds) THEN RequestStatusReturn(w, t)
     ELSE sendPayload([w EXCEPT !.th[t].idx = i], t, cmds[i], FALSE, NoKey, "rs_pwr")

\* encrypt(): the key and IV are read when crypto.subtle.encrypt is called
encrypt(w, t, pc) ==
  IF w.svc.activeKey = NoKey \/ w.svc.activeIv = NoKey
    THEN Throw(w, t, "Crypto not initialized")
    ELSE [w EXCEPT !.th[t].pc = pc,
                   !.th[t].key = w.svc.activeKey,
                   !.th[t].iv = w.svc.activeIv]

\* the loop of requestStatus over profile.statusCommands, from the i-th on
RequestStatusLoop(w, t, i) ==
  LET cmds == StatusCommands(w.svc.profile)
  IN IF i > Len(cmds)
       THEN IF w.svc.profile = "Charger"
              THEN sendChargerStatusProbe(w, t, 1)
              ELSE RequestStatusReturn(w, t)
       ELSE encrypt([w EXCEPT !.th[t].idx = i], t, "rs_enc")

\* requestStatus without its crypto-state check
requestStatusUnchecked(w, t) ==
  IF w.svc.profile = "Charger" /\ w.env.readable /\ w.svc.connected
    THEN [w EXCEPT !.th[t].pc = "rs_read"]
  ELSE RequestStatusLoop(w, t, 1)

requestStatus(w, t) ==
  IF w.svc.cryptoState # "Session"
    THEN Throw(w, t, "Session key is not active")
  ELSE IF w.svc.profile = "Charger" /\ w.env.readable /\ w.svc.connected
    THEN [w EXCEPT !.th[t].pc = "rs_read"]
  ELSE RequestStatusLoop(w, t, 1)

(* ------------------------------------------------------------------ *)
(* handshake                                                           *)
(* ------------------------------------------------------------------ *)
HandshakeCommand(i) ==
  CASE i = 1 -> CMD_HANDSHAKE_1
    [] i = 2 -> CMD_HANDSHAKE_2
    [] i = 3 -> CMD_HANDSHAKE_INFO
    [] i = 4 -> CMD_HANDSHAKE_4

\* sendAndWaitForResponse(buildRequestContent(step i)) up to the pending write
HandshakeSend(w, i) ==
  sendPayload([w EXCEPT !.th["hs"].idx = i], "hs", HandshakeCommand(i), FALSE, NoKey, "hs_w")

\* setupCrypto(keyBytes, ivBytes, state) up to the pending importKey
setupCrypto(w, keyBytes, ivBytes, state, owner) ==
  [w EXCEPT !.tasks = @ \cup {[NoTask EXCEPT !.k = "import", !.key = keyBytes,
                                            !.iv = ivBytes, !.st = state,
                                            !.owner = owner]}]

\* handshake() resumes when the waiter of step idx is resolved
\* handshake() after a resolved wait, without the check of the serial number
HandshakeResumeNoSerialCheck(w) ==
  LET i == w.th["hs"].idx
  IN IF i < 4 THEN HandshakeSend(w, i + 1)
     ELSE setupCrypto([w EXCEPT !.th["hs"].pc = "hs_imp"], InitialKey,
                      normalizeIvFromSerial(w.svc.serialNumber), "Initial", "hs")

\* handshake() after the wait of step i has resolved
HandshakeResume(w) ==
  LET i == w.th["hs"].idx
  IN IF i < 3 THEN HandshakeSend(w, i + 1)
     ELSE IF i = 3
       THEN IF w.svc.serialNumber = <<>>
              THEN Throw(w, "hs", "Serial number not extracted from handshake")
              ELSE HandshakeSend(w, 4)
     ELSE setupCrypto([w EXCEPT !.th["hs"].pc = "hs_imp"], InitialKey,
                      normalizeIvFromSerial(w.svc.serialNumber), "Initial", "hs")

\* waitForCryptoState('Session'): one look at the state
waitForCryptoState(w) ==
  IF w.svc.cryptoState = "Session" THEN requestStatus(w, "hs")
  ELSE [w EXCEPT !.th["hs"].pc = "hs_poll"]

(* ------------------------------------------------------------------ *)
(* The pending-response slot                                           *)
(* ------------------------------------------------------------------ *)
\* waitForNextNotification(): a new promise, its timer, and the slot overwritten
waitForNextNotification(w, t, pc) ==
  [w EXCEPT !.waiters = @ \cup {t},
            !.svc.resolveNextNotification = t,
            !.th[t].pc = pc]

\* the async function that awaited the waiter of t runs on
Resume(w, t) ==
  IF t = "hs" THEN HandshakeResume(w) ELSE PortSwitchPoll(w, t)

\* the resolver without clearTimeout(timeout): the timer of the resolved waiter
\* stays armed
ResolvePendingKeepsTimer(w, kind, f) ==
  IF w.svc.resolveNextNotification = NoOwner THEN w
  ELSE LET t  == w.svc.resolveNextNotification
           w1 == [w EXCEPT !.svc.resolveNextNotification = NoOwner]
       IN Resume(Emit(w1, "resolved", t, [kind |-> kind, f |-> f]), t)

\* if (this.resolveNextNotification) { ...; resolve(data) }
ResolvePending(w, kind, f) ==
  IF w.svc.resolveNextNotification = NoOwner THEN w
  ELSE LET t  == w.svc.resolveNextNotification
           w1 == [w EXCEPT !.svc.resolveNextNotification = NoOwner,
                           !.waiters = @ \ {t}]
       IN Resume(Emit(w1, "resolved", t, [kind |-> kind, f |-> f]), t)

\* the setTimeout callback without this.resolveNextNotification = null
ResponseTimeoutKeepsSlot(w, t) ==
  LET w1 == [w EXCEPT !.waiters = @ \ {t}]
      w2 == Mark(w1, "x", 0, FALSE, NoKey, t)
  IN Throw(Emit(w2, "timeout", t, "Response timeout"), t, "Response timeout")

\* the setTimeout callback of the waiter of t
ResponseTimeout(w, t) ==
  LET w1 == [w EXCEPT !.svc.resolveNextNotification = NoOwner,
                      !.waiters = @ \ {t}]
      w2 == Mark(w1, "x", 0, FALSE, NoKey, t)
  IN Throw(Emit(w2, "timeout", t, "Response timeout"), t, "Response timeout")

(* ------------------------------------------------------------------ *)
(* Status decoders                                                     *)
(* ------------------------------------------------------------------ *)
Has(tlv, tag) == tag \in DOMAIN tlv

\* this.lastPowerStatus = status; ...; this.callbacks.onPowerStatus(status)
StoreStatus(w, status, source) ==
  LET w1 == [w EXCEPT !.svc.lastPowerStatus = status]
      w2 == IF source = "keep" THEN w1
            ELSE [w1 EXCEPT !.svc.chargerStatusSource = source,
                            !.svc.chargerTelemetrySeenAt = TRUE]
  IN Emit(w2, "power", "status", status)

\* parseA2687Status with the totals taken from A2/A3 when the device sends them
parseA2687StatusDeviceTotals(w, tlv, command) ==
  LET last == w.svc.lastPowerStatus
      c1 == IF Has(tlv, TagA5) THEN parseA2687PortData(tlv[TagA5]) ELSE last.usbC1
      c2 == IF Has(tlv, TagA6) THEN parseA2687PortData(tlv[TagA6]) ELSE last.usbC2
      c3 == IF Has(tlv, TagA7) THEN parseA2687PortData(tlv[TagA7]) ELSE last.usbA
      computedOutW == Max(0, c1.power) + Max(0, c2.power) + Max(0, c3.power)
      tlvOutW == IF Has(tlv, TagA2) /\ Len(tlv[TagA2]) >= 3
                   THEN parseU16LE(tlv[TagA2], 1) ELSE computedOutW
      tlvInW == IF Has(tlv, TagA3) /\ Len(tlv[TagA3]) >= 3
                  THEN parseU16LE(tlv[TagA3], 1) ELSE computedOutW
      status == [batteryPercent |-> last.batteryPercent,
                 temperature |-> last.temperature,
                 totalInputW |-> tlvInW,
                 totalOutputW |-> tlvOutW,
                 usbC1 |-> c1, usbC2 |-> c2, usbA |-> c3]
  IN StoreStatus(w, status, "FF09")

parseA2687Status(w, tlv, command) ==
  LET last == w.svc.lastPowerStatus
      c1 == IF Has(tlv, TagA5) THEN parseA2687PortData(tlv[TagA5]) ELSE last.usbC1
      c2 == IF Has(tlv, TagA6) THEN parseA2687PortData(tlv[TagA6]) ELSE last.usbC2
      c3 == IF Has(tlv, TagA7) THEN parseA2687PortData(tlv[TagA7]) ELSE last.usbA
      computedOutW == Max(0, c1.power) + Max(0, c2.power) + Max(0, c3.power)
      temp == IF Has(tlv, TagA9) /\ Len(tlv[TagA9]) >= 2 /\ tlv[TagA9][2] <= 120
                THEN tlv[TagA9][2] ELSE last.temperature
      status == [batteryPercent |-> last.batteryPercent,
                 temperature |-> temp,
                 totalInputW |-> computedOutW,
                 totalOutputW |-> computedOutW,
                 usbC1 |-> c1, usbC2 |-> c2, usbA |-> c3]
  IN StoreStatus(w, status, "FF09")

parseComprehensiveStatus(w, tlv) ==
  LET e == emptyPowerStatus
      bp == IF Has(tlv, TagA2) THEN parseBatteryPercent(tlv[TagA2]) ELSE -1
      hasTotals == Has(tlv, TagAE) /\ Len(tlv[TagAE]) >= 5
      status == [batteryPercent |-> IF bp # -1 THEN bp ELSE e.batteryPercent,
                 temperature |-> IF Has(tlv, TagB3) /\ Len(tlv[TagB3]) > 1
                                   THEN tlv[TagB3][2] ELSE e.temperature,
                 totalOutputW |-> IF hasTotals THEN parseU16LE(tlv[TagAE], 1)
                                  ELSE e.totalOutputW,
                 totalInputW |-> IF hasTotals THEN parseU16LE(tlv[TagAE], 3)
                                 ELSE e.totalInputW,
                 usbC1 |-> IF Has(tlv, TagA4) THEN parsePortData(tlv[TagA4]) ELSE e.usbC1,
                 usbC2 |-> IF Has(tlv, TagA5) THEN parsePortData(tlv[TagA5]) ELSE e.usbC2,
                 usbA  |-> IF Has(tlv, TagA6) THEN parsePortData(tlv[TagA6]) ELSE e.usbA]
  IN StoreStatus(w, status, IF w.svc.profile = "Charger" THEN "FF09" ELSE "keep")

parseLivePowerStatus(w, tlv) ==
  LET last == w.svc.lastPowerStatus
      bp == IF Has(tlv, TagA8) THEN parseBatteryPercent(tlv[TagA8]) ELSE -1
      hasTotals == Has(tlv, TagA6) /\ Len(tlv[TagA6]) >= 5
      status == [batteryPercent |-> IF bp # -1 THEN bp ELSE last.batteryPercent,
                 temperature |-> last.temperature,
                 totalOutputW |-> IF hasTotals THEN parseU16LE(tlv[TagA6], 1)
                                  ELSE last.totalOutputW,
                 totalInputW |-> IF hasTotals THEN parseU16LE(tlv[TagA6], 3)
                                 ELSE last.totalInputW,
                 usbC1 |-> IF Has(tlv, TagA2) THEN parsePortData(tlv[TagA2]) ELSE last.usbC1,
                 usbC2 |-> IF Has(tlv, TagA3) THEN parsePortData(tlv[TagA3]) ELSE last.usbC2,
                 usbA  |-> IF Has(tlv, TagA4) THEN parsePortData(tlv[TagA4]) ELSE last.usbA]
  IN StoreStatus(w, status, IF w.svc.profile = "Charger" THEN "FF09" ELSE "keep")

detectSolixTelemetryLayout(d) ==
  IF d.n < 200 THEN "null"
  ELSE IF d.m139 <= 2 /\ d.m143 <= 2 /\ d.m147 <= 2 THEN "c300_enc"
  ELSE IF d.b160 <= 100 THEN "c1000_enc"
  ELSE "null"

SolixPort(mode, power) ==
  [mode |-> getSolixPortModeString(mode), voltage |-> 0, current |-> 0, power |-> power * 10]

\* parseSolixTelemetry(decrypted); the world is unchanged when it returns false
parseSolixTelemetry(w, d) ==
  LET layout == detectSolixTelemetryLayout(d)
      c300 == layout = "c300_enc"
      last == w.svc.lastPowerStatus
      status == [batteryPercent |-> 100 * (IF c300 THEN d.b131 ELSE d.b160),
                 temperature |-> last.temperature,
                 totalInputW |-> 10 * (IF c300 THEN d.w65 ELSE d.w75),
                 totalOutputW |-> 10 * (IF c300 THEN d.w70 ELSE d.w80),
                 usbC1 |-> SolixPort(d.m139, d.p35),
                 usbC2 |-> SolixPort(d.m143, d.p40),
                 usbA  |-> SolixPort(d.m147, d.p45)]
  IN IF d.n < 100 \/ layout = "null" THEN w
     ELSE StoreStatus(w, status, "SolixEncrypted")

(* ------------------------------------------------------------------ *)
(* Responses                                                           *)
(* ------------------------------------------------------------------ *)
\* command & ~COMMAND_ACK_MASK_16
ClearAck16(command) ==
  IF (command \div 2048) % 2 = 1 THEN command - 2048 ELSE command

handlePlainResponse(w, command, tlvData) ==
  LET normalizedCommand == ClearAck16(command)
      tlv == parseTlv(tlvData)
      serial == IF Has(tlv, TagA4) THEN TextDecode(tlv[TagA4]) ELSE <<>>
  IN IF normalizedCommand = CMD_HANDSHAKE_INFO
       THEN Emit([w EXCEPT !.svc.serialNumber = serial], "deviceInfo", "serial", serial)
       ELSE w

\* processDecryptedContent that takes an A1 of any length for the session key
processDecryptedContentAnyLength(w, command, decrypted) ==
  LET tlv == parseDecryptedTlv(decrypted)
  IN IF w.svc.cryptoState = "Initial" /\ Has(tlv, TagA1)
       THEN setupCrypto(w, tlv[TagA1], w.svc.activeIv, "Session", NoOwner)
     ELSE w

processDecryptedContent(w, command, decrypted) ==
  LET normalizedCommand == ClearAck16(command)
      tlv == parseDecryptedTlv(decrypted)
  IN IF w.svc.cryptoState = "Initial" /\ Has(tlv, TagA1) /\ Len(tlv[TagA1]) = 16
       THEN setupCrypto(w, tlv[TagA1], w.svc.activeIv, "Session", NoOwner)
     ELSE IF normalizedCommand \in {CMD_STATUS_FULL, CMD_STATUS_ALT_FULL}
       THEN IF isAckOnlyStatusTlv(tlv) THEN w ELSE parseComprehensiveStatus(w, tlv)
     ELSE IF normalizedCommand = CMD_STATUS_LIVE
       THEN IF isAckOnlyStatusTlv(tlv) THEN w ELSE parseLivePowerStatus(w, tlv)
     ELSE IF normalizedCommand \in {CMD_CHARGER_STATUS_FULL, CMD_CHARGER_STATUS_LIVE,
                                    CMD_CHARGER_STATUS_AUX}
       THEN IF isAckOnlyStatusTlv(tlv) THEN w ELSE parseA2687Status(w, tlv, normalizedCommand)
     ELSE w

(* ------------------------------------------------------------------ *)
(* Notifications                                                       *)
(* ------------------------------------------------------------------ *)
Bit(byte, mask) == (byte \div mask) % 2 = 1

\* commandHighByte & ~COMMAND_FLAG_ACK: the encrypted flag stays in the command
CommandHighBaseAckOnly(hi) ==
  hi - (IF Bit(hi, COMMAND_FLAG_ACK) THEN COMMAND_FLAG_ACK ELSE 0)

\* commandHighByte & ~(COMMAND_FLAG_ENCRYPTED | COMMAND_FLAG_ACK)
CommandHighBase(hi) ==
  hi - (IF Bit(hi, COMMAND_FLAG_ENCRYPTED) THEN COMMAND_FLAG_ENCRYPTED ELSE 0)
     - (IF Bit(hi, COMMAND_FLAG_ACK) THEN COMMAND_FLAG_ACK ELSE 0)

FullCommand(f) == CommandHighBase(f.hi) * 256 + f.lo

\* payloadWithHeader.length
PayloadLength(f) == f.len - 5

isFramedPacket(f) == f.len >= 5 /\ f.magic

\* candidates[i - 1].length: payloadWithHeader.slice(5) and .slice(6)
CandidateLength(f, i) == Max(0, PayloadLength(f) - 4 - i)

CandidateCount(f) == IF PayloadLength(f) > 6 THEN 2 ELSE 1

\* crypto.subtle.decrypt succeeds: candidate i is the whole ciphertext, a
\* well-formed one, and key and IV are those it was made with
DecryptSucceeds(f, i, key, iv) ==
  /\ f.pre = i - 1
  /\ f.ct.n = CipherLen(f.ct.pt)
  /\ f.ct.key = key
  /\ f.ct.iv = iv

\* a .catch of tryDecrypt() that also drops the last power status
DecryptFailedClearsStatus(w, f) ==
  ResolvePending([w EXCEPT !.svc.decryptErrorCount = @ + 1,
                           !.svc.lastPowerStatus = emptyPowerStatus], "raw", f)

\* .catch of tryDecrypt()
DecryptFailed(w, f) ==
  ResolvePending([w EXCEPT !.svc.decryptErrorCount = @ + 1], "raw", f)

\* tryDecrypt without the length checks on the candidate
tryDecryptAnyLength(w, f, command, i, id) ==
  IF i > CandidateCount(f) \/ w.svc.activeKey = NoKey \/ w.svc.activeIv = NoKey
    THEN DecryptFailed(w, f)
  ELSE [w EXCEPT !.tasks = @ \cup {[NoTask EXCEPT !.k = "decrypt", !.id = id, !.f = f,
                                               !.cmd = command, !.i = i,
                                               !.key = w.svc.activeKey,
                                               !.iv = w.svc.activeIv]}]

\* the loop of tryDecrypt from candidate i on, up to the next pending decrypt;
\* decrypt() reads activeKey and activeIv when it is called
RECURSIVE tryDecrypt(_, _, _, _, _)
tryDecrypt(w, f, command, i, id) ==
  IF i > CandidateCount(f) THEN DecryptFailed(w, f)
  ELSE IF CandidateLength(f, i) < 16 \/ CandidateLength(f, i) % 16 # 0
    THEN tryDecrypt(w, f, command, i + 1, id)
  ELSE IF w.svc.activeKey = NoKey \/ w.svc.activeIv = NoKey
    THEN tryDecrypt(w, f, command, i + 1, id)
  ELSE [w EXCEPT !.tasks = @ \cup {[NoTask EXCEPT !.k = "decrypt", !.id = id, !.f = f,
                                               !.cmd = command, !.i = i,
                                               !.key = w.svc.activeKey,
                                               !.iv = w.svc.activeIv]}]

\* a pending crypto.subtle.decrypt of tryDecrypt completes
DecryptSettled(w, task) ==
  IF DecryptSucceeds(task.f, task.i, task.key, task.iv)
    THEN LET w1 == [w EXCEPT !.svc.decryptSuccessCount = @ + 1]
             w2 == processDecryptedContent(w1, task.cmd, task.f.ct.pt)
             w3 == [w2 EXCEPT !.tasks = w1.tasks \cup
                                {[t EXCEPT !.id = task.id] : t \in w2.tasks \ w1.tasks}]
         IN ResolvePending(w3, "decrypted", task.f)
    ELSE tryDecrypt(w, task.f, task.cmd, task.i + 1, task.id)

\* handleSolixNegotiationPacket that answers the fifth response with packet 5
\* and derives the key from the sixth
handleSolixNegotiationPacketSixth(w, f) ==
  LET n == w.svc.solixNegotiationPacketCount
  IN IF n \in 1..5 THEN sendRawCommandPacket(w, n)
     ELSE IF n = 6
       THEN IF f.len - 13 # 64 THEN w
            ELSE [w EXCEPT !.tasks = @ \cup {[NoTask EXCEPT !.k = "ecdh", !.id = NotificationId(w),
                                                           !.f = f]}]
     ELSE w

\* handleSolixNegotiationPacket(rawData) up to its first pending operation
handleSolixNegotiationPacket(w, f) ==
  LET n == w.svc.solixNegotiationPacketCount
  IN IF n \in 1..4 THEN sendRawCommandPacket(w, n)
     ELSE IF n = 5
       THEN IF f.len - 13 # 64 THEN w
            ELSE [w EXCEPT !.tasks = @ \cup {[NoTask EXCEPT !.k = "ecdh", !.id = NotificationId(w),
                                                           !.f = f]}]
     ELSE w

\* tryParseEncryptedSolixTelemetry(rawData) up to the pending decrypt
tryParseEncryptedSolixTelemetry(w, f) ==
  IF ~w.svc.solixSharedKey \/ f.len <= 45 \/ f.len - 45 < 16 THEN w
  ELSE [w EXCEPT !.tasks = @ \cup {[NoTask EXCEPT !.k = "telemetry", !.id = NotificationId(w),
                                                    !.f = f]}]

\* returns <<handled, world>>
tryHandleChargerSolixNotification(w, f) ==
  IF w.svc.chargerStatusSource = "FF09" THEN <<FALSE, w>>
  ELSE IF f.hello THEN <<TRUE, w>>
  ELSE IF isFramedPacket(f) THEN <<FALSE, w>>
  ELSE IF ~w.svc.solixSharedKey
    THEN IF ~w.svc.solixNegotiationStartedAt THEN <<FALSE, w>>
         ELSE <<FALSE, handleSolixNegotiationPacket(
                  [w EXCEPT !.svc.solixNegotiationPacketCount = @ + 1], f)>>
  ELSE IF f.len < 100 THEN <<FALSE, w>>
  ELSE <<TRUE, tryParseEncryptedSolixTelemetry(w, f)>>

\* handleNotification that resolves the pending promise with the payload at
\* once, also when a decrypt is started
HandleFrameEager(w, f) ==
  IF f.len < 5 THEN ResolvePending(w, "raw", f)
  ELSE IF PayloadLength(f) >= 5
    THEN LET isEncrypted == Bit(f.hi, COMMAND_FLAG_ENCRYPTED)
             fullCommand == FullCommand(f)
             w1 == [w EXCEPT !.svc.lastReceivedCommand = fullCommand,
                             !.svc.lastReceivedWasEncrypted = isEncrypted]
         IN IF isEncrypted
              THEN IF w1.svc.activeKey = NoKey
                     THEN ResolvePending(w1, "payload", f)
                     ELSE ResolvePending(tryDecrypt(w1, f, fullCommand, 1, NotificationId(w1)),
                                         "payload", f)
              ELSE ResolvePending(handlePlainResponse(w1, fullCommand, f.plain),
                                  "payload", f)
  ELSE ResolvePending(w, "payload", f)

\* handleNotification after the charger pre-filter
HandleFrame(w, f) ==
  IF f.len < 5 THEN ResolvePending(w, "raw", f)
  ELSE IF PayloadLength(f) >= 5
    THEN LET isEncrypted == Bit(f.hi, COMMAND_FLAG_ENCRYPTED)
             fullCommand == FullCommand(f)
             w1 == [w EXCEPT !.svc.lastReceivedCommand = fullCommand,
                             !.svc.lastReceivedWasEncrypted = isEncrypted]
         IN IF isEncrypted
              THEN IF w1.svc.activeKey = NoKey
                     THEN ResolvePending(w1, "payload", f)
                     ELSE tryDecrypt(w1, f, fullCommand, 1, NotificationId(w1))
              ELSE ResolvePending(handlePlainResponse(w1, fullCommand, f.plain),
                                  "payload", f)
  ELSE ResolvePending(w, "payload", f)

handleNotification(w, f) ==
  IF w.svc.profile = "Charger"
    THEN LET r == tryHandleChargerSolixNotification(w, f)
         IN IF r[1] THEN r[2] ELSE HandleFrame(r[2], f)
    ELSE HandleFrame(w, f)

\* calculateAndStoreSolixSharedKey resolved or rejected, and the rest of case 5
EcdhSettled(w, task) ==
  IF ~task.f.pub THEN w
  ELSE LET w1 == [w EXCEPT !.svc.solixSharedKey = TRUE]
       IN IF w1.svc.connected
            THEN [sendRawCommandPacket(w1, 5) EXCEPT
                    !.tasks = @ \cup {[NoTask EXCEPT !.k = "nego5"]}]
            ELSE Emit([w1 EXCEPT !.svc.cryptoState = "Session",
                                 !.svc.solixNegotiationStartedAt = FALSE],
                      "crypto", "Session", 0)

\* the write of negotiation packet 5 settles
Nego5Settled(w, ok) ==
  IF ~ok THEN w
  ELSE Emit([w EXCEPT !.svc.cryptoState = "Session",
                      !.svc.solixNegotiationStartedAt = FALSE],
            "crypto", "Session", 0)

\* crypto.subtle.decrypt of a Solix telemetry packet settles
TelemetrySettled(w, task) ==
  IF task.f.shared THEN parseSolixTelemetry(w, task.f.sol) ELSE w

\* importKey of setupCrypto resolves: the rest of setupCrypto, then its awaiter
ImportSettled(w, task) ==
  LET w1 == [w EXCEPT !.svc.activeKey = task.key,
                      !.svc.activeIv = task.iv,
                      !.svc.cryptoState = task.st]
      w2 == Emit(w1, "crypto", task.st, 0)
  IN IF task.owner = "hs" THEN encrypt(w2, "hs", "hs_enc") ELSE w2

(* ------------------------------------------------------------------ *)
(* What the device can send                                            *)
(* ------------------------------------------------------------------ *)
\* byte | mask, for a one-bit mask
SetBit(byte, mask) == IF Bit(byte, mask) THEN byte ELSE byte + mask

\* a framed unencrypted response: FF 09 len 03 00 group hi lo status TLV... cs
PlainFrame(command, ack, tlvData) ==
  [NoFrame EXCEPT !.len = 11 + Len(tlvData), !.magic = TRUE,
                  !.hi = IF ack THEN SetBit(command \div 256, COMMAND_FLAG_ACK)
                         ELSE command \div 256,
                  !.lo = command % 256, !.plain = tlvData]

\* a framed encrypted response, pre bytes between header and ciphertext
EncryptedFrame(command, ack, pre, ct) ==
  [NoFrame EXCEPT !.len = 10 + pre + ct.n, !.magic = TRUE,
                  !.hi = SetBit(IF ack THEN SetBit(command \div 256, COMMAND_FLAG_ACK)
                                ELSE command \div 256, COMMAND_FLAG_ENCRYPTED),
                  !.lo = command % 256, !.pre = pre, !.ct = ct]

ShortFrame(n) == [NoFrame EXCEPT !.len = n, !.magic = TRUE]

HelloFrame == [NoFrame EXCEPT !.len = 5, !.hello = TRUE]

\* an unframed packet of the ECDH negotiation
NegotiationFrame(n, pub) == [NoFrame EXCEPT !.len = n, !.pub = pub]

\* an unframed Solix telemetry packet
TelemetryFrame(n, shared, sol) == [NoFrame EXCEPT !.len = n, !.shared = shared, !.sol = sol]

(* ------------------------------------------------------------------ *)
(* Actions                                                             *)
(* ------------------------------------------------------------------ *)
WritePcs == {"hs_w", "hs_w5", "rs_wr", "rs_pwr", "ps_w", "fb_w0"}
EncryptPcs == {"hs_enc", "rs_enc", "ps_enc"}

\* connectToDevice(device) up to the 500 ms settle delay.  A new attempt starts
\* when the previous one has settled and no crypto operation is still running
\* (they take far less than the GATT connect and the settle delay).
ConnectToDevice ==
  /\ th["hs"].pc = "idle"
  /\ ~svc.connected /\ ~env.link /\ ~env.gattEvent
  /\ tasks = {}
  /\ env.connects > 0
  /\ Commit(Emit([World EXCEPT !.svc.connected = TRUE,
                               !.env.link = TRUE,
                               !.env.connects = @ - 1,
                               !.wire = <<>>,
                               !.th["hs"] = [IdleThread EXCEPT !.op = "connect", !.pc = "settle"]],
                 "connection", "true", 0))

\* gatt.connect() or service discovery rejects: the catch of connectToDevice
ConnectFails ==
  /\ th["hs"].pc = "idle"
  /\ ~svc.connected /\ ~env.link /\ ~env.gattEvent
  /\ tasks = {}
  /\ env.connects > 0
  /\ Commit(ConnFail([World EXCEPT !.env.connects = @ - 1,
                                   !.th["hs"] = [IdleThread EXCEPT !.op = "connect"]],
                     "GATT connect failed"))

\* handshake() starts: session timestamp, step 1
HandshakeStart ==
  /\ th["hs"].pc = "settle"
  /\ Commit(HandshakeSend([World EXCEPT !.svc.sessionUtcBytes = TRUE], 1))

\* a pending writeValue resolves and the async function runs on
AfterWrite(w, t) ==
  LET pc == w.th[t].pc
  IN CASE pc = "hs_w"   -> waitForNextNotification(w, t, "hs_a")
       [] pc = "ps_w"   -> waitForNextNotification(w, t, "ps_a")
       [] pc = "hs_w5"  -> waitForCryptoState(w)
       [] pc = "rs_wr"  -> RequestStatusLoop(w, t, w.th[t].idx + 1)
       [] pc = "rs_pwr" -> sendChargerStatusProbe(w, t, w.th[t].idx + 1)
       [] pc = "fb_w0"  -> [w EXCEPT !.th[t].pc = "fb_wait0"]

WriteCompletes ==
  \E t \in Threads :
    /\ th[t].pc \in WritePcs
    /\ Commit(AfterWrite(World, t))

WriteFails ==
  \E t \in Threads :
    /\ th[t].pc \in WritePcs
    /\ Commit(Throw(World, t, "GATT write failed"))

\* a pending crypto.subtle.encrypt resolves: the payload is built and written
AfterEncrypt(w, t) ==
  LET pc == w.th[t].pc
  IN CASE pc = "hs_enc" -> sendPayload(w, t, CMD_SESSION_KEY, TRUE, w.th[t].key, "hs_w5")
       [] pc = "rs_enc" -> sendPayload(w, t, StatusCommands(w.svc.profile)[w.th[t].idx],
                                       TRUE, w.th[t].key, "rs_wr")
       [] pc = "ps_enc" -> sendPayload(w, t, CMD_CHARGER_PORT_SWITCH, TRUE, w.th[t].key, "ps_w")

EncryptCompletes ==
  \E t \in Threads :
    /\ th[t].pc \in EncryptPcs
    /\ Commit(AfterEncrypt(World, t))

\* characteristicvaluechanged
Notify(f) ==
  /\ svc.connected /\ env.link
  /\ env.notifs > 0
  /\ Commit(handleNotification(MarkNotification([World EXCEPT !.env.notifs = @ - 1]), f))

\* readChargerTelemetryCharacteristic(): readValue resolves with f
ReadValue(f) ==
  \E t \in Threads :
    /\ th[t].pc = "rs_read"
    /\ env.link
    /\ env.notifs > 0
    /\ Commit(RequestStatusLoop(handleNotification([World EXCEPT !.env.notifs = @ - 1], f),
                                t, 1))

\* readValue rejects; the error is logged
ReadFails ==
  \E t \in Threads :
    /\ th[t].pc = "rs_read"
    /\ Commit(RequestStatusLoop(World, t, 1))

TimerFires ==
  \E t \in waiters : Commit(ResponseTimeout(World, t))

TaskSettles ==
  \E task \in tasks :
    LET w == [World EXCEPT !.tasks = @ \ {task}]
    IN CASE task.k = "decrypt"   -> Commit(DecryptSettled(w, task))
         [] task.k = "import"    -> Commit(ImportSettled(w, task))
         [] task.k = "ecdh"      -> Commit(EcdhSettled(w, task))
         [] task.k = "telemetry" -> Commit(TelemetrySettled(w, task))
         [] task.k = "nego5"     -> \E ok \in BOOLEAN : Commit(Nego5Settled(w, ok))

\* the link drops: gattserverdisconnected
GattServerDisconnected ==
  /\ env.link
  /\ Commit(handleDisconnect([World EXCEPT !.env.link = FALSE]))

\* gattserverdisconnected dispatched after gatt.disconnect()
GattDisconnectEvent ==
  /\ env.gattEvent
  /\ Commit(handleDisconnect([World EXCEPT !.env.gattEvent = FALSE]))

\* the application calls disconnect()
Disconnect ==
  /\ svc.connected
  /\ Commit(disconnect(World))

\* the 100 ms poll of waitForCryptoState sees the target state
PollSeesSession ==
  /\ th["hs"].pc = "hs_poll"
  /\ svc.cryptoState = "Session"
  /\ Commit(requestStatus(World, "hs"))

PollTimesOut ==
  /\ th["hs"].pc = "hs_poll"
  /\ Commit(Throw(World, "hs", "Timed out waiting for crypto state"))

\* one wake-up of the polling loops of startChargerEncryptedSession
FallbackTick ==
  /\ th["hs"].pc \in {"fb_wait0", "fb_key", "fb_tel"}
  /\ \E due \in BOOLEAN :
       /\ due => env.retries > 0 /\ svc.solixLastInitiationAt
                 /\ svc.solixNegotiationPacketCount = 0 /\ svc.connected
       /\ LET from == CASE th["hs"].pc = "fb_wait0" -> 0
                         [] th["hs"].pc = "fb_key" -> 1
                         [] th["hs"].pc = "fb_tel" -> 2
              w == ChargerSessionLoops(
                     [World EXCEPT !.env.retries = IF due THEN @ - 1 ELSE @], due, from)
          IN w # World /\ Commit(w)

\* startChargerEncryptedSession with a deadline in its first loop only
FallbackTimeoutFirstLoopOnly ==
  /\ th["hs"].pc = "fb_wait0"
  /\ svc.solixNegotiationPacketCount = 0
  /\ Commit(Throw(World, "hs", "Timed out waiting for charger"))

\* a deadline of startChargerEncryptedSession has passed at a wake-up
FallbackTimeout ==
  /\ th["hs"].pc \in {"fb_wait0", "fb_key", "fb_tel"}
  /\ th["hs"].pc = "fb_wait0" => svc.solixNegotiationPacketCount = 0 \/ ~svc.solixSharedKey
  /\ th["hs"].pc = "fb_key" => ~svc.solixSharedKey
  /\ th["hs"].pc = "fb_tel" => ~svc.chargerTelemetrySeenAt
  /\ Commit(Throw(World, "hs", "Timed out waiting for charger"))

\* the application calls requestStatus()
CallRequestStatus ==
  \E t \in Threads \ {"hs"} :
    /\ th[t].pc = "idle"
    /\ t = "u2" => th["u1"].pc # "idle"
    /\ svc.connected
    /\ env.calls > 0
    /\ Commit(requestStatus([World EXCEPT !.env.calls = @ - 1,
                                          !.th[t].op = "requestStatus"], t))

\* setChargerPortSwitch(port, enabled) up to the pending encrypt
setChargerPortSwitch(w, t, port, enabled) ==
  LET w1 == [w EXCEPT !.th[t].op = "portSwitch", !.th[t].port = port, !.th[t].en = enabled]
  IN IF w.svc.profile # "Charger"
       THEN EndCall(w1, t, "rejected", "Port switch is only supported for charger profile")
     ELSE IF w.svc.cryptoState # "Session"
       THEN EndCall(w1, t, "rejected", "Session key is not active")
     ELSE encrypt(w1, t, "ps_enc")

\* the application calls setChargerPortSwitch()
CallPortSwitch ==
  \E t \in Threads \ {"hs"}, port \in {"usbC1"}, enabled \in BOOLEAN :
    /\ th[t].pc = "idle"
    /\ t = "u2" => th["u1"].pc # "idle"
    /\ svc.connected
    /\ env.calls > 0
    /\ Commit(setChargerPortSwitch([World EXCEPT !.env.calls = @ - 1], t, port, enabled))

\* the poll loop of setChargerPortSwitch after the 400 ms delay
PortSwitchCheck(w, t) ==
  LET now == w.svc.lastPowerStatus[w.th[t].port]
      success == IF w.th[t].en THEN now.mode = "Output" ELSE now.mode = "Off"
      maxAttempts == IF w.th[t].en THEN 3 ELSE 5
  IN IF success THEN EndCall(w, t, "returned", "portSwitch")
     ELSE IF w.th[t].att < maxAttempts
       THEN [w EXCEPT !.th[t].pc = "ps_sleep1", !.th[t].att = @ + 1]
     ELSE EndCall(w, t, "rejected", "Port switch command sent but state did not change")

\* a setTimeout delay of setChargerPortSwitch elapses
DelayElapses ==
  \E t \in Threads \ {"hs"} :
    \/ /\ th[t].pc = "ps_sleep1"
       /\ Commit(requestStatus(World, t))
    \/ /\ th[t].pc = "ps_sleep2"
       /\ Commit(PortSwitchCheck(World, t))

(* ------------------------------------------------------------------ *)
(* Specification: the service from construction                        *)
(* ------------------------------------------------------------------ *)
\* the device's serial number "ABC" and the IV it gives
Serial == <<65, 66, 67>>
SerialIv == normalizeIvFromSerial(Serial)

\* a session key the device issues
SessionKey == [i \in 1..16 |-> 17]
\* another 16-byte value a device can put into A1
RotatedKey == [i \in 1..16 |-> 34]

Tlv(type, value) == [type |-> type, value |-> value]

\* the 0x0029 response body: firmware, serial, MAC
DeviceInfoTlv ==
  buildTlvBuffer(<<Tlv(TagA3, <<49>>), Tlv(TagA4, Serial), Tlv(TagA5, Zeros(6))>>)

\* the plaintext of the 0x0022 response: pad byte, then A1 = session key
SessionKeyPlain == <<0>> \o buildTlvBuffer(<<Tlv(TagA1, SessionKey)>>)

HandshakeFrames ==
  { PlainFrame(CMD_HANDSHAKE_1, TRUE, <<>>),
    PlainFrame(CMD_HANDSHAKE_INFO, TRUE, DeviceInfoTlv),
    PlainFrame(CMD_HANDSHAKE_INFO, TRUE, buildTlvBuffer(<<Tlv(TagA3, <<49>>)>>)),
    EncryptedFrame(CMD_SESSION_KEY, TRUE, 0, Encrypt(InitialKey, SerialIv, SessionKeyPlain)),
    ShortFrame(3),
    NegotiationFrame(77, TRUE) }

Init ==
  /\ \E profile \in {"Powerbank", "Charger"}, readable \in BOOLEAN :
       /\ readable => profile = "Charger"
       /\ svc = InitSvc(profile)
       /\ env = InitEnv(readable, MaxConnects, MaxNotifs, 0)
  /\ waiters = {}
  /\ tasks = {}
  /\ th = [t \in Threads |-> IdleThread]
  /\ wire = <<>>
  /\ out = <<>>
  /\ codec = NoCodec

Notification == \E f \in HandshakeFrames : Notify(f)

ReadCompletes == \E f \in HandshakeFrames : ReadValue(f)

Next ==
  \/ ConnectToDevice
  \/ ConnectFails
  \/ HandshakeStart
  \/ WriteCompletes
  \/ WriteFails
  \/ EncryptCompletes
  \/ Notification
  \/ ReadCompletes
  \/ ReadFails
  \/ TimerFires
  \/ TaskSettles
  \/ GattServerDisconnected
  \/ GattDisconnectEvent
  \/ Disconnect
  \/ PollSeesSession
  \/ PollTimesOut
  \/ FallbackTick
  \/ FallbackTimeout

Spec == Init /\ [][Next]_vars

(* ------------------------------------------------------------------ *)
(* Specification: an established session and the public calls          *)
(* ------------------------------------------------------------------ *)
\* an encrypted response under the session key: pad byte, then the TLVs
SessionFrame(command, tlvArray) ==
  EncryptedFrame(command, TRUE, 0,
                 Encrypt(SessionKey, SerialIv, <<0>> \o buildTlvBuffer(tlvArray)))

\* the single-TLV acknowledgement A1 = one byte
AckOnlyFrame(command) == SessionFrame(command, <<Tlv(TagA1, <<0>>)>>)

\* a power bank port block: mode Output, 5.0 V, 2.0 A
PortBlock == <<0, 0, 2, 50, 0, 20, 0>>
\* a battery block: 80.50 %
BatteryBlock == <<0, 0, 0, 0, 0, 0, 0, 0, 80, 50>>
\* a charger port block: enabled, 5000 mV, 1000 mA
ChargerBlock == <<0, 1, 136, 19, 232, 3, 0, 0>>

\* charger totals as the device reports them: 20.0 W out, 30.0 W in
DeviceTotalOut == <<2, 200, 0>>
DeviceTotalIn == <<2, 44, 1>>

\* a ciphertext the session key does not open
ForeignFrame(command) ==
  EncryptedFrame(command, TRUE, 0, Encrypt(InitialKey, SerialIv, <<0, TagA2, 1, 7>>))

\* a response with a status byte between the header and the ciphertext
PrefixedFrame(command, tlvArray) ==
  EncryptedFrame(command, TRUE, 1,
                 Encrypt(SessionKey, SerialIv, <<0>> \o buildTlvBuffer(tlvArray)))

\* an encrypted frame that carries n bytes after its header, not a whole
\* number of AES blocks
TruncatedFrame(command, n) ==
  EncryptedFrame(command, TRUE, 0, [Encrypt(SessionKey, SerialIv, <<0>>) EXCEPT !.n = n])

StatusFrames(profile) ==
  IF profile = "Charger"
    THEN { SessionFrame(CMD_CHARGER_STATUS_FULL,
                        <<Tlv(TagA2, DeviceTotalOut), Tlv(TagA3, DeviceTotalIn),
                          Tlv(TagA5, ChargerBlock), Tlv(TagA7, ChargerBlock)>>),
           SessionFrame(CMD_CHARGER_STATUS_LIVE, <<Tlv(TagA9, <<0, 40>>)>>),
           AckOnlyFrame(CMD_CHARGER_STATUS_FULL),
           AckOnlyFrame(CMD_CHARGER_STATUS_LIVE),
           AckOnlyFrame(CMD_CHARGER_STATUS_AUX),
           SessionFrame(CMD_CHARGER_PORT_SWITCH, <<Tlv(TagA1, <<0>>)>>),
           ForeignFrame(CMD_CHARGER_STATUS_FULL),
           PrefixedFrame(CMD_CHARGER_STATUS_AUX, <<Tlv(TagA6, ChargerBlock)>>),
           TruncatedFrame(CMD_CHARGER_STATUS_FULL, 24) }
    ELSE { SessionFrame(CMD_STATUS_LIVE, <<Tlv(TagA2, PortBlock), Tlv(TagA8, BatteryBlock)>>),
           SessionFrame(CMD_STATUS_FULL, <<Tlv(TagA2, BatteryBlock)>>),
           AckOnlyFrame(CMD_STATUS_FULL),
           AckOnlyFrame(CMD_STATUS_ALT_FULL),
           AckOnlyFrame(CMD_STATUS_LIVE),
           ForeignFrame(CMD_STATUS_FULL),
           PrefixedFrame(CMD_STATUS_LIVE, <<Tlv(TagA2, PortBlock)>>),
           TruncatedFrame(CMD_STATUS_FULL, 0) }

\* the service when connectToDevice() has returned after a full handshake
SessionSvc(profile) ==
  [InitSvc(profile) EXCEPT
     !.connected = TRUE,
     !.cryptoState = "Session",
     !.activeKey = SessionKey,
     !.activeIv = SerialIv,
     !.sessionUtcBytes = TRUE,
     !.serialNumber = Serial,
     !.lastReceivedCommand = CMD_SESSION_KEY,
     !.lastReceivedWasEncrypted = TRUE,
     !.decryptSuccessCount = 1]

WriteMark(cmd, enc, key) == [t |-> "w", cmd |-> cmd, enc |-> enc, key |-> key, by |-> "hs"]
NotificationMark == [t |-> "n", cmd |-> 0, enc |-> FALSE, key |-> NoKey, by |-> "dev"]

\* what that handshake and its first requestStatus() wrote
SessionWire(profile) ==
  << WriteMark(CMD_HANDSHAKE_1, FALSE, NoKey), NotificationMark,
     WriteMark(CMD_HANDSHAKE_2, FALSE, NoKey), NotificationMark,
     WriteMark(CMD_HANDSHAKE_INFO, FALSE, NoKey), NotificationMark,
     WriteMark(CMD_HANDSHAKE_4, FALSE, NoKey), NotificationMark,
     WriteMark(CMD_SESSION_KEY, TRUE, InitialKey), NotificationMark >>
  \o [i \in 1..Len(StatusCommands(profile)) |->
        WriteMark(StatusCommands(profile)[i], TRUE, SessionKey)]
  \o (IF profile = "Charger"
        THEN [i \in 1..Len(StatusCommands(profile)) |->
               WriteMark(StatusCommands(profile)[i], FALSE, NoKey)]
        ELSE <<>>)

\* connectToDevice() has returned; the application and the device go on
InitSessionWith(profiles, readables, notifs, calls) ==
  /\ \E profile \in profiles, readable \in readables :
       /\ readable => profile = "Charger"
       /\ svc = SessionSvc(profile)
       /\ env = [InitEnv(readable, 0, notifs, calls) EXCEPT !.link = TRUE]
       /\ wire = SessionWire(profile)
  /\ waiters = {}
  /\ tasks = {}
  /\ th = [t \in Threads |-> IdleThread]
  /\ out = <<>>
  /\ codec = NoCodec

InitSession == InitSessionWith({"Powerbank", "Charger"}, BOOLEAN, MaxStatusNotifs, MaxCalls)

StatusNotification == \E f \in StatusFrames(svc.profile) : Notify(f)

StatusRead == \E f \in StatusFrames(svc.profile) : ReadValue(f)

NextSession ==
  \/ CallRequestStatus
  \/ CallPortSwitch
  \/ DelayElapses
  \/ WriteCompletes
  \/ WriteFails
  \/ EncryptCompletes
  \/ StatusNotification
  \/ StatusRead
  \/ ReadFails
  \/ TimerFires
  \/ TaskSettles
  \/ GattServerDisconnected
  \/ GattDisconnectEvent
  \/ Disconnect

SpecSession == InitSession /\ [][NextSession]_vars

(* ------------------------------------------------------------------ *)
(* Specification: overlapping public calls on a charger session        *)
(* ------------------------------------------------------------------ *)
OverlapFrames ==
  { SessionFrame(CMD_CHARGER_PORT_SWITCH, <<Tlv(TagA1, <<0>>)>>),
    SessionFrame(CMD_CHARGER_STATUS_FULL, <<Tlv(TagA5, ChargerBlock)>>) }

InitOverlap == InitSessionWith({"Charger"}, {FALSE}, MaxOverlapNotifs, MaxOverlapCalls)

ResponseNotification == \E f \in OverlapFrames : Notify(f)

NextOverlap ==
  \/ CallRequestStatus
  \/ CallPortSwitch
  \/ DelayElapses
  \/ WriteCompletes
  \/ WriteFails
  \/ EncryptCompletes
  \/ ResponseNotification
  \/ TimerFires
  \/ TaskSettles
  \/ GattServerDisconnected
  \/ GattDisconnectEvent
  \/ Disconnect

SpecOverlap == InitOverlap /\ [][NextOverlap]_vars

(* ------------------------------------------------------------------ *)
(* Properties                                                          *)
(* ------------------------------------------------------------------ *)
HandshakeCommands ==
  {CMD_HANDSHAKE_1, CMD_HANDSHAKE_2, CMD_HANDSHAKE_INFO, CMD_HANDSHAKE_4, CMD_SESSION_KEY}

\* positions in the log of the writes of handshake()
HandshakeWrites ==
  {i \in 1..Len(wire) : wire[i].t = "w" /\ wire[i].by = "hs"
                        /\ wire[i].cmd \in HandshakeCommands}

\* C1: in every connection attempt the k-th write of handshake() is the k-th
\* of 0x0001, 0x0003, 0x0029, 0x0005, 0x0022, only the last one encrypted;
\* between two consecutive writes a notification was observed; and no write
\* of handshake() follows a response timeout.
C1_HandshakeOrder ==
  \A i \in HandshakeWrites :
    LET earlier == {j \in HandshakeWrites : j < i}
        k == Cardinality(earlier) + 1
    IN /\ k <= 5
       /\ wire[i].cmd = (IF k = 5 THEN CMD_SESSION_KEY ELSE HandshakeCommand(k))
       /\ wire[i].enc = (k = 5)
       /\ k > 1 => \E n \in 1..(i - 1) : wire[n].t = "n" /\ \A j \in earlier : j < n
       /\ \A x \in 1..(i - 1) : wire[x].t # "x"

\* the handshake ran to its end and connectToDevice() returned: the state
\* InitSession starts from
SessionEstablished ==
  /\ wire = SessionWire(svc.profile)
  /\ svc = SessionSvc(svc.profile)
  /\ th = [t \in Threads |-> IdleThread]
  /\ tasks = {} /\ waiters = {}

\* C2: without a disconnect the crypto state only moves forward: no step takes
\* it from Session to Initial, and no step takes it from INACTIVE to Session.
C2_ForwardOnly ==
  [][ /\ svc.cryptoState = "Session" => svc'.cryptoState # "Initial"
      /\ svc.cryptoState = "INACTIVE" => svc'.cryptoState # "Session" ]_vars

AllStatusCommands ==
  {CMD_STATUS_FULL, CMD_STATUS_ALT_FULL, CMD_STATUS_LIVE,
   CMD_CHARGER_STATUS_FULL, CMD_CHARGER_STATUS_LIVE, CMD_CHARGER_STATUS_AUX}

\* C3: whenever cryptoState is Session the installed key is the key the device
\* issued in its 0x0022 response, and every encrypted status request written
\* is encrypted under that key.
C3_SessionKeyOnly ==
  /\ svc.cryptoState = "Session" => svc.activeKey = SessionKey
  /\ \A i \in 1..Len(out) :
       (out[i].e = "write" /\ out[i].d.enc /\ out[i].d.cmd \in AllStatusCommands)
         => out[i].d.key = SessionKey

\* C4: while the service is disconnected cryptoState is INACTIVE, no key and
\* no IV is installed and the power status is the empty status.
C4_NothingSurvivesDisconnect ==
  ~svc.connected =>
    /\ svc.cryptoState = "INACTIVE"
    /\ svc.activeKey = NoKey
    /\ svc.activeIv = NoKey
    /\ svc.lastPowerStatus = emptyPowerStatus

\* handleDisconnect ran in the last step
DisconnectRan ==
  \E i \in 1..Len(out) : out[i].e = "connection" /\ out[i].a = "false"

\* C5: a step in which handleDisconnect ran ends with cryptoState INACTIVE, key
\* and IV cleared, serial and session timestamp cleared, the pending slot empty,
\* the ECDH negotiation state reset and the power status empty, and it emitted
\* crypto-state INACTIVE and then connection-state false.
C5_DisconnectResets ==
  DisconnectRan =>
    /\ svc.cryptoState = "INACTIVE"
    /\ svc.activeKey = NoKey /\ svc.activeIv = NoKey
    /\ svc.serialNumber = <<>> /\ ~svc.sessionUtcBytes
    /\ svc.resolveNextNotification = NoOwner
    /\ ~svc.solixNegotiationStartedAt /\ ~svc.solixLastInitiationAt
    /\ svc.solixNegotiationPacketCount = 0 /\ ~svc.solixSharedKey
    /\ svc.lastPowerStatus = emptyPowerStatus
    /\ \E i, j \in 1..Len(out) :
         /\ i < j
         /\ out[i] = Event("crypto", "INACTIVE", 0)
         /\ out[j] = Event("connection", "false", 0)

\* connectToDevice() gave up waiting for Session, with the bootstrap context
\* installed, and its catch disconnected
C5_Witness ==
  /\ DisconnectRan
  /\ \E i \in 1..Len(out) : out[i].e = "rejected" /\ out[i].a = "hs"
                            /\ out[i].d = "Timed out waiting for crypto state"
  /\ \E i \in 1..Len(wire) : wire[i].cmd = CMD_SESSION_KEY /\ wire[i].key = InitialKey

\* the decrypt operations that completed in this step with a plaintext
DecryptedNow == {task \in tasks \ tasks' :
                   /\ task.k = "decrypt"
                   /\ DecryptSucceeds(task.f, task.i, task.key, task.iv)}

\* the step handled the plaintext of task as a status response
StatusResponse(task) ==
  /\ ClearAck16(task.cmd) \in AllStatusCommands
  /\ ~(svc.cryptoState = "Initial"
       /\ Has(parseDecryptedTlv(task.f.ct.pt), TagA1)
       /\ Len(parseDecryptedTlv(task.f.ct.pt)[TagA1]) = 16)

\* for each decoder, the TLV tags that carry each field of the power status
\* (the charger decoder derives the totals from its three ports)
FieldTags(command) ==
  IF command \in {CMD_STATUS_FULL, CMD_STATUS_ALT_FULL}
    THEN [batteryPercent |-> {TagA2}, temperature |-> {TagB3},
          totalOutputW |-> {TagAE}, totalInputW |-> {TagAE},
          usbC1 |-> {TagA4}, usbC2 |-> {TagA5}, usbA |-> {TagA6}]
  ELSE IF command = CMD_STATUS_LIVE
    THEN [batteryPercent |-> {TagA8}, temperature |-> {},
          totalOutputW |-> {TagA6}, totalInputW |-> {TagA6},
          usbC1 |-> {TagA2}, usbC2 |-> {TagA3}, usbA |-> {TagA4}]
  ELSE [batteryPercent |-> {}, temperature |-> {TagA9},
        totalOutputW |-> {TagA5, TagA6, TagA7}, totalInputW |-> {TagA5, TagA6, TagA7},
        usbC1 |-> {TagA5}, usbC2 |-> {TagA6}, usbA |-> {TagA7}]

\* C6: when a decrypted status response is decoded, every field of the power
\* status whose TLV tag is absent from the response has, in the status handed
\* to onPowerStatus, the value it had in the last power status before.
C6_PatchMerge ==
  [][ \A task \in DecryptedNow :
        StatusResponse(task) =>
          \A i \in 1..Len(out') :
            out'[i].e = "power" =>
              \A field \in DOMAIN emptyPowerStatus :
                (FieldTags(ClearAck16(task.cmd))[field]
                   \cap DOMAIN parseDecryptedTlv(task.f.ct.pt) = {})
                  => out'[i].d[field] = svc.lastPowerStatus[field] ]_vars

\* the TLV set is exactly one A1 record of one byte
SingleA1Echo(tlv) == DOMAIN tlv = {TagA1} /\ Len(tlv[TagA1]) = 1

\* C7: a step that handles a decrypted status response whose TLV set is exactly
\* one A1 record of length 1 leaves the last power status as it was, all three
\* ports included, and hands no power status to onPowerStatus.
C7_AckOnlyKeepsStatus ==
  [][ \A task \in DecryptedNow :
        (StatusResponse(task) /\ SingleA1Echo(parseDecryptedTlv(task.f.ct.pt)))
          => /\ svc'.lastPowerStatus = svc.lastPowerStatus
             /\ \A i \in 1..Len(out') : out'[i].e # "power" ]_vars

\* a full status was stored and then the ACK-only response to 0x020A was handled
C7_Witness ==
  /\ svc.lastReceivedCommand = CMD_CHARGER_STATUS_AUX
  /\ svc.decryptSuccessCount = 3
  /\ tasks = {}
  /\ svc.connected
  /\ svc.lastPowerStatus # emptyPowerStatus
  /\ svc.lastPowerStatus.usbC1 # emptyPortData

\* C8: a step in which the response timeout of a waiter fires takes the waiter
\* out of the unsettled ones, rejects with "Response timeout" so that its
\* caller no longer awaits it, and ends with the pending slot empty; a step
\* in which a notification resolves a promise resolves an unsettled waiter,
\* never one that has timed out.
C8_TimeoutClearsSlot ==
  [][ \A i \in 1..Len(out') :
        /\ out'[i].e = "timeout" =>
             /\ out'[i].a \in waiters
             /\ out'[i].a \notin waiters'
             /\ out'[i].d = "Response timeout"
             /\ th'[out'[i].a].pc \notin {"hs_a", "ps_a"}
             /\ svc'.resolveNextNotification = NoOwner
        /\ out'[i].e = "resolved" =>
             /\ out'[i].a \in waiters
             /\ out'[i].a \notin waiters' ]_vars

\* a handshake step timed out, a notification arrived after that, and no
\* waiter is left
C8_Witness ==
  /\ \E i, j \in 1..Len(wire) : i < j /\ wire[i].t = "x" /\ wire[j].t = "n"
  /\ svc.resolveNextNotification = NoOwner
  /\ waiters = {}

\* C9: at any time at most one waiter installed by sendAndWaitForResponse is
\* unsettled.
C9_OneWaiter == Cardinality(waiters) <= 1

\* an inbound frame with the ENCRYPTED flag and a command header
EncryptedFramed(f) == f.len >= 10 /\ Bit(f.hi, COMMAND_FLAG_ENCRYPTED)

\* no decrypt can start for the frame: no candidate is a whole number of AES
\* blocks, or decrypt() throws for want of a key or an IV
NoCandidate(f) ==
  \/ \A c \in 1..CandidateCount(f) : CandidateLength(f, c) < 16 \/ CandidateLength(f, c) % 16 # 0
  \/ svc.activeKey = NoKey
  \/ svc.activeIv = NoKey

\* the plaintext of task was processed before event i of the step
Processed(task, i) ==
  LET tlv == parseDecryptedTlv(task.f.ct.pt)
  IN IF svc.cryptoState = "Initial" /\ Has(tlv, TagA1) /\ Len(tlv[TagA1]) = 16
       THEN \E t \in tasks' \ tasks : t.k = "import" /\ t.key = tlv[TagA1] /\ t.st = "Session"
     ELSE IF ClearAck16(task.cmd) \in AllStatusCommands /\ ~SingleA1Echo(tlv)
       THEN \E j \in 1..(i - 1) : out'[j].e = "power"
     ELSE TRUE

\* C10: a step that starts a decrypt for an encrypted frame resolves no waiter;
\* a waiter resolved with an encrypted frame gets the payload only when no key
\* was installed, the plaintext only in the step in which the decrypt of that
\* frame succeeded and after the session-key or status processing of the
\* plaintext, and the raw frame only when the decrypt attempt of that frame
\* has failed (a decrypt of it was rejected, or none could start).
C10_ResolveAfterDecrypt ==
  [][ /\ (\E d \in tasks' \ tasks : d.k = "decrypt")
           => \A i \in 1..Len(out') : out'[i].e # "resolved"
      /\ \A i \in 1..Len(out') :
           (out'[i].e = "resolved" /\ EncryptedFramed(out'[i].d.f)) =>
             LET f == out'[i].d.f
                 kind == out'[i].d.kind
             IN \/ kind = "payload" /\ svc.activeKey = NoKey
                \/ /\ kind = "decrypted"
                   /\ \E task \in DecryptedNow : task.f = f /\ Processed(task, i)
                \/ /\ kind = "raw"
                   /\ \/ \E task \in tasks \ tasks' :
                           /\ task.k = "decrypt" /\ task.f = f
                           /\ ~DecryptSucceeds(task.f, task.i, task.key, task.iv)
                      \/ NoCandidate(f) ]_vars

\* a status response was decrypted while a waiter was pending: the status was
\* handed to onPowerStatus and then the waiter was resolved with the plaintext
C10_Witness ==
  \E i, j \in 1..Len(out) :
    /\ j < i
    /\ out[j].e = "power"
    /\ out[i].e = "resolved" /\ out[i].d.kind = "decrypted"
    /\ EncryptedFramed(out[i].d.f)

(* ------------------------------------------------------------------ *)
(* Specification: the handshake from the bootstrap context on          *)
(* ------------------------------------------------------------------ *)
\* notifications the device delivers after the bootstrap context is installed
MaxBootstrapNotifs == 2
\* public calls made while the handshake is still running
MaxBootstrapCalls == 1

\* an encrypted response under the bootstrap key: pad byte, then the TLVs
BootstrapFrame(command, tlvArray) ==
  EncryptedFrame(command, TRUE, 0,
                 Encrypt(InitialKey, SerialIv, <<0>> \o buildTlvBuffer(tlvArray)))

BootstrapFrames ==
  { BootstrapFrame(CMD_SESSION_KEY, <<Tlv(TagA1, SessionKey)>>),
    BootstrapFrame(CMD_SESSION_KEY, <<Tlv(TagA1, <<1, 2, 3, 4>>)>>),
    BootstrapFrame(CMD_STATUS_FULL, <<Tlv(TagA1, RotatedKey), Tlv(TagA4, PortBlock)>>),
    BootstrapFrame(CMD_STATUS_FULL, <<Tlv(TagA1, Zeros(17)), Tlv(TagA4, PortBlock)>>),
    EncryptedFrame(CMD_STATUS_LIVE, TRUE, 1,
                   Encrypt(InitialKey, SerialIv,
                           <<0>> \o buildTlvBuffer(<<Tlv(TagA2, PortBlock)>>))) }

\* the service when handshake() has installed the bootstrap key and IV
BootstrapSvc(profile) ==
  [InitSvc(profile) EXCEPT
     !.connected = TRUE,
     !.cryptoState = "Initial",
     !.activeKey = InitialKey,
     !.activeIv = SerialIv,
     !.sessionUtcBytes = TRUE,
     !.serialNumber = Serial,
     !.lastReceivedCommand = CMD_HANDSHAKE_INFO,
     !.lastReceivedWasEncrypted = FALSE]

\* the four unencrypted steps and their responses
BootstrapWire == SubSeq(SessionWire("Powerbank"), 1, 8)

\* handshake() is about to encrypt its 0x0022 request
BootstrapThreads ==
  [t \in Threads |->
     IF t = "hs" THEN [IdleThread EXCEPT !.op = "connect", !.pc = "hs_enc", !.idx = 4,
                                         !.key = InitialKey, !.iv = SerialIv]
     ELSE IdleThread]

InitBootstrap ==
  /\ \E profile \in {"Powerbank", "Charger"} :
       /\ svc = BootstrapSvc(profile)
       /\ env = [InitEnv(FALSE, 0, MaxBootstrapNotifs, MaxBootstrapCalls) EXCEPT !.link = TRUE]
  /\ wire = BootstrapWire
  /\ waiters = {}
  /\ tasks = {}
  /\ th = BootstrapThreads
  /\ out = <<Event("crypto", "Initial", 0)>>
  /\ codec = NoCodec

BootstrapNotification == \E f \in BootstrapFrames : Notify(f)

\* the application calls requestStatus() before the session is established,
\* connected or not
CallRequestStatusEarly ==
  /\ th["u1"].pc = "idle"
  /\ svc.cryptoState # "Session"
  /\ env.calls > 0
  /\ Commit(requestStatus([World EXCEPT !.env.calls = @ - 1,
                                        !.th["u1"].op = "requestStatus"], "u1"))

NextBootstrap ==
  \/ CallRequestStatusEarly
  \/ WriteCompletes
  \/ WriteFails
  \/ EncryptCompletes
  \/ BootstrapNotification
  \/ TaskSettles
  \/ GattServerDisconnected
  \/ GattDisconnectEvent
  \/ Disconnect
  \/ PollSeesSession
  \/ PollTimesOut
  \/ FallbackTick
  \/ FallbackTimeout

SpecBootstrap == InitBootstrap /\ [][NextBootstrap]_vars

\* the bootstrap context was installed by handshake(): the state InitBootstrap
\* starts from
BootstrapInstalled ==
  /\ svc = BootstrapSvc(svc.profile)
  /\ wire = BootstrapWire
  /\ th = BootstrapThreads
  /\ tasks = {} /\ waiters = {}
  /\ out = <<Event("crypto", "Initial", 0)>>

\* C11: while cryptoState is Initial, the step that handles a decrypted
\* response whose A1 is 16 bytes starts the import of that value as the key,
\* with the IV installed at that moment and the state Session, and decodes no
\* telemetry (no power status is stored or emitted); when that import
\* completes the key, that IV and the state Session are installed.  A
\* decrypted response with an A1 of another length, or without A1, leaves the
\* state, the key and the IV as they are and starts no import.
C11_SessionKeyInstall ==
  [][ /\ \A task \in DecryptedNow :
           LET tlv == parseDecryptedTlv(task.f.ct.pt)
           IN svc.cryptoState = "Initial" =>
                IF Has(tlv, TagA1) /\ Len(tlv[TagA1]) = 16
                  THEN /\ \E t \in tasks' \ tasks :
                            /\ t.k = "import" /\ t.key = tlv[TagA1]
                            /\ t.iv = svc.activeIv /\ t.st = "Session"
                       /\ \A i \in 1..Len(out') : out'[i].e # "power"
                       /\ svc'.lastPowerStatus = svc.lastPowerStatus
                  ELSE /\ svc'.cryptoState = "Initial"
                       /\ svc'.activeKey = svc.activeKey
                       /\ svc'.activeIv = svc.activeIv
                       /\ \A t \in tasks' \ tasks : t.k # "import"
      /\ \A task \in tasks \ tasks' :
           (task.k = "import" /\ task.st = "Session")
             => /\ svc'.activeKey = task.key
                /\ svc'.activeIv = task.iv
                /\ svc'.cryptoState = "Session" ]_vars

\* the only notification so far was the 0x0500 response carrying a 16-byte A1
\* and a port block: the session key is installed with the bootstrap IV and
\* the power status is still empty
C11_Witness ==
  /\ svc.cryptoState = "Session"
  /\ svc.activeKey = RotatedKey /\ svc.activeIv = SerialIv
  /\ svc.lastReceivedCommand = CMD_STATUS_FULL
  /\ svc.decryptSuccessCount = 1
  /\ svc.lastPowerStatus = emptyPowerStatus
  /\ env.notifs = MaxBootstrapNotifs - 1
  /\ tasks = {}
  /\ svc.connected

MissingSerial == "Serial number not extracted from handshake"

\* the wait of handshake step 3 resolved in this step
Step3Resolved ==
  /\ th["hs"].pc = "hs_a" /\ th["hs"].idx = 3
  /\ \E i \in 1..Len(out') : out'[i].e = "resolved" /\ out'[i].a = "hs"

\* the serial number when the wait resolved: the one handlePlainResponse
\* stored from the notification of this step, if it stored one
DeviceInfoEvents == {i \in 1..Len(out') : out'[i].e = "deviceInfo"}
SerialAtResume ==
  IF DeviceInfoEvents = {} THEN svc.serialNumber
  ELSE out'[CHOOSE i \in DeviceInfoEvents : \A j \in DeviceInfoEvents : j <= i].d

\* what every profile does when the serial is missing: no step 4, no import of
\* a key, no key installed
NoStep4NoContext ==
  /\ \A i \in 1..Len(out') :
       ~(out'[i].e = "write" /\ out'[i].d.by = "hs" /\ out'[i].d.cmd = CMD_HANDSHAKE_4)
  /\ \A t \in tasks' \ tasks : t.k # "import"
  /\ svc'.activeKey \in {svc.activeKey, NoKey}

SessionNotActive == "Session key is not active"

PollTimeout == "Timed out waiting for crypto state"

\* the encrypted status requests written by the step
StatusWrites(o) ==
  { i \in 1..Len(o) :
      o[i].e = "write" /\ o[i].d.enc /\ o[i].d.cmd \in AllStatusCommands }

\* thread t was rejected with msg by the step
RejectedWith(o, t, msg) ==
  \E i \in 1..Len(o) : o[i].e = "rejected" /\ o[i].a = t /\ o[i].d = msg

InHandshake(pc) == pc \notin FallbackPcs \cup {"idle"}

\* C14: when handshake() ends without returning, the charger starts
\* startChargerEncryptedSession (cryptoState Initial, negotiation started, no
\* rejection yet) and the powerbank rejects the connection attempt; the
\* fallback is entered only from a failed handshake(), is never entered by
\* the powerbank, and once entered the attempt never goes back to handshake().
C14_FallbackOnce ==
  [][ LET pc   == th["hs"].pc
          next == th'["hs"].pc
          rejected == \E i \in 1..Len(out') : out'[i].e = "rejected" /\ out'[i].a = "hs"
          returned == \E i \in 1..Len(out') : out'[i].e = "returned" /\ out'[i].a = "hs"
      IN /\ (InHandshake(pc) /\ ~InHandshake(next))
              => \/ returned /\ next = "idle"
                 \/ /\ svc.profile = "Charger"
                    /\ next \in FallbackPcs
                    /\ svc'.solixNegotiationStartedAt
                    /\ svc'.cryptoState = "Initial"
                    /\ ~rejected
                 \/ /\ svc.profile = "Powerbank"
                    /\ next = "idle"
                    /\ rejected
         /\ (next \in FallbackPcs /\ pc \notin FallbackPcs)
              => InHandshake(pc) /\ svc.profile = "Charger"
         /\ pc \in FallbackPcs => next \in FallbackPcs \cup {"idle"}
         /\ svc.profile = "Powerbank" => next \notin FallbackPcs ]_vars

\* the charger is in its fallback after a handshake() that got as far as its
\* third request
C14_Witness ==
  /\ svc.profile = "Charger"
  /\ th["hs"].pc \in FallbackPcs
  /\ Cardinality(HandshakeWrites) >= 3

(* ------------------------------------------------------------------ *)
(* C15: a failed connection attempt                                    *)
(* ------------------------------------------------------------------ *)
\* no crypto context and no waiter: the state a connection attempt expects
CleanInactive(s) ==
  /\ s.cryptoState = "INACTIVE"
  /\ s.activeKey = NoKey
  /\ s.resolveNextNotification = NoOwner

\* connectToDevice rejected in the step, after onError with the same message
ConnectRejected(o) ==
  \E i \in 1..Len(o) :
    /\ o[i].e = "rejected" /\ o[i].a = "hs"
    /\ \E j \in 1..(i - 1) : o[j].e = "error" /\ o[j].a = o[i].d

\* a retry: connectToDevice is called again in the step
RetryStarts == th["hs"].pc = "idle" /\ th'["hs"].pc = "settle"

\* C15: when connectToDevice rejects, the error was emitted through onError
\* first and the service is INACTIVE with no key and an empty pending slot;
\* and every connection attempt starts from that state.
C15_FailedAttemptResets ==
  [][ /\ (\E i \in 1..Len(out') : out'[i].e = "rejected" /\ out'[i].a = "hs")
           => ConnectRejected(out') /\ CleanInactive(svc') /\ ~svc'.connected
      /\ RetryStarts => CleanInactive(svc) ]_vars

(* ------------------------------------------------------------------ *)
(* C16, C17: decrypt candidates and decrypt failures                   *)
(* ------------------------------------------------------------------ *)
\* the .catch of tryDecrypt() ran in the step
DecryptFailedNow == svc'.decryptErrorCount = svc.decryptErrorCount + 1

\* the step ends in the .catch: no handshake() was waiting for the frame (a
\* waiting handshake() runs on to its next await in the same step)
CatchOnly == DecryptFailedNow /\ svc.resolveNextNotification # "hs"

\* C16: a step in which a decrypt attempt fails changes, of the service, only
\* the error counter and the pending slot (and the last-received diagnostics
\* when the failure is found in the step the frame arrives in): cryptoState,
\* key, IV and last power status are unchanged, no power-status, crypto-state
\* or connection event is emitted, no key import starts and the link stays up.
C16_DecryptFailureKeepsState ==
  [][ CatchOnly =>
        /\ svc' = [svc EXCEPT !.decryptErrorCount = @ + 1,
                              !.resolveNextNotification = NoOwner,
                              !.lastReceivedCommand = svc'.lastReceivedCommand,
                              !.lastReceivedWasEncrypted = svc'.lastReceivedWasEncrypted]
        /\ \A i \in 1..Len(out') : out'[i].e \notin {"power", "crypto", "connection", "error"}
        /\ tasks' \subseteq tasks
        /\ env'.link = env.link /\ env'.gattEvent = env.gattEvent ]_vars

\* a waiter got the raw frame of a failed decrypt while a power status is
\* stored and the session is up
C16_Witness ==
  /\ svc.decryptErrorCount > 0
  /\ svc.connected /\ svc.cryptoState = "Session" /\ svc.activeKey = SessionKey
  /\ svc.lastPowerStatus # emptyPowerStatus
  /\ \E i \in 1..Len(out) : out[i].e = "resolved" /\ out[i].d.kind = "raw"

\* candidate c of frame f is a whole, positive number of AES blocks
Eligible(f, c) == CandidateLength(f, c) >= 16 /\ CandidateLength(f, c) % 16 = 0

\* the decrypts that completed in the step and those it started
SettledDecrypts == {t \in tasks \ tasks' : t.k = "decrypt"}

StartedDecrypts == {t \in tasks' \ tasks : t.k = "decrypt"}

\* C17: a decrypt is started for the first candidate (offset 5, then offset 6)
\* that is a positive multiple of 16 bytes and was not tried yet, each earlier
\* one having been skipped for its length or having just failed; skipping
\* counts no error and resolves or rejects nobody; when a decrypt succeeds its
\* plaintext is processed, the waiter gets it and no further candidate is
\* tried; and a frame is given up (raw resolution) only when every candidate
\* was skipped, failed, or could not be decrypted for want of key or IV.
C17_CandidateOrder ==
  [][ /\ \A t \in StartedDecrypts :
           /\ t.i \in 1..CandidateCount(t.f)
           /\ Eligible(t.f, t.i)
           /\ \A c \in 1..(t.i - 1) :
                \/ ~Eligible(t.f, c)
                \/ \E s \in SettledDecrypts :
                     s.id = t.id /\ s.i = c /\ ~DecryptSucceeds(s.f, s.i, s.key, s.iv)
           /\ ~DecryptFailedNow
           /\ \A i \in 1..Len(out') : out'[i].e \notin {"resolved", "rejected", "error"}
      /\ \A s \in SettledDecrypts :
           DecryptSucceeds(s.f, s.i, s.key, s.iv)
             => /\ svc'.decryptSuccessCount = svc.decryptSuccessCount + 1
                /\ StartedDecrypts = {}
                /\ Processed(s, Len(out') + 1)
                /\ \A i \in 1..Len(out') :
                     out'[i].e = "resolved" => out'[i].d.kind = "decrypted" /\ out'[i].d.f = s.f
      /\ \A i \in 1..Len(out') :
           (out'[i].e = "resolved" /\ out'[i].d.kind = "raw" /\ EncryptedFramed(out'[i].d.f))
             => \A c \in 1..CandidateCount(out'[i].d.f) :
                  \/ ~Eligible(out'[i].d.f, c)
                  \/ svc.activeKey = NoKey \/ svc.activeIv = NoKey
                  \/ \E s \in SettledDecrypts :
                       s.f = out'[i].d.f /\ s.i = c /\ ~DecryptSucceeds(s.f, s.i, s.key, s.iv) ]_vars

\* a waiter got the plaintext of a frame whose first candidate (offset 5) was
\* skipped for its length and whose second (offset 6) decrypted
C17_Witness ==
  \E i \in 1..Len(out) :
    /\ out[i].e = "resolved"
    /\ out[i].d.kind = "decrypted"
    /\ out[i].d.f.pre = 1
    /\ ~Eligible(out[i].d.f, 1) /\ Eligible(out[i].d.f, 2)

(* ------------------------------------------------------------------ *)
(* Framing: xorChecksum, buildRequestContent, framePacket              *)
(* ------------------------------------------------------------------ *)
\* a ^ b on non-negative integers
RECURSIVE BitXor(_, _)
BitXor(a, b) ==
  IF a = 0 THEN b
  ELSE IF b = 0 THEN a
  ELSE ((a + b) % 2) + 2 * BitXor(a \div 2, b \div 2)

\* cs = 0; for (i...) cs ^= data[i] over data[lo..hi] (1-based), folded by
\* halves: ^ is associative and 0 is its unit
RECURSIVE XorRange(_, _, _)
XorRange(data, lo, hi) ==
  IF lo > hi THEN 0
  ELSE IF lo = hi THEN BitXor(0, data[lo])
  ELSE LET mid == (lo + hi) \div 2
       IN BitXor(XorRange(data, lo, mid), XorRange(data, mid + 1, hi))

xorChecksum(data) == XorRange(data, 1, Len(data))

buildRequestContent(command, tlvArray, group) ==
  LET commandHigh == (command \div 256) % 256
      commandLow  == command % 256
      commandHeader == <<COMMAND_HEADER_1, COMMAND_HEADER_2, group % 256, commandHigh>>
      commandCode == <<commandLow>>
  IN commandHeader \o commandCode \o buildTlvBuffer(tlvArray)

\* buildEncryptedPayload that leaves the command high byte as it is
buildEncryptedPayloadNoFlag(group, command, cipherText) ==
  <<COMMAND_HEADER_1, COMMAND_HEADER_2, group % 256, (command \div 256) % 256,
    command % 256>> \o cipherText

buildEncryptedPayload(group, command, cipherText) ==
  LET commandHigh == SetBit((command \div 256) % 256, COMMAND_FLAG_ENCRYPTED)
      commandLow  == command % 256
      header == <<COMMAND_HEADER_1, COMMAND_HEADER_2, group % 256, commandHigh, commandLow>>
  IN header \o cipherText

\* setUint16(2, v, true): the two bytes written
Uint16LE(v) == <<v % 256, (v \div 256) % 256>>

\* framePacket whose checksum leaves out the two magic bytes
framePacketChecksumSkipsMagic(payload) ==
  LET totalPacketLength == Len(payload) + 5
      messageForChecksum ==
        <<FRAME_HEADER_1, FRAME_HEADER_2>> \o Uint16LE(totalPacketLength) \o payload
  IN messageForChecksum \o <<xorChecksum(Uint16LE(totalPacketLength) \o payload)>>

framePacket(payload) ==
  LET totalPacketLength == Len(payload) + 5
      messageForChecksum ==
        <<FRAME_HEADER_1, FRAME_HEADER_2>> \o Uint16LE(totalPacketLength) \o payload
      checksum == xorChecksum(messageForChecksum)
  IN messageForChecksum \o <<checksum>>

\* rawData.slice(4): the checksum byte is kept
payloadWithChecksum(rawData) == SubSeq(rawData, 5, Len(rawData))

\* rawData.slice(4, rawData.byteLength - 1) of handleNotification
payloadWithHeader(rawData) == SubSeq(rawData, 5, Len(rawData) - 1)

(* ------------------------------------------------------------------ *)
(* Specification: the framing functions on bounded inputs              *)
(* ------------------------------------------------------------------ *)
\* raw payloads: every byte string up to MaxPayloadLen over PayloadBytes, and
\* one of each length in LongLengths
MaxPayloadLen == 3
LongPayloadLen == 250

PayloadBytes == {0, 9, 255}

LongLengths == {LongPayloadLen, LongPayloadLen + 1}

Pattern(n) == [i \in 1..n |-> (7 * i + 3) % 256]

RawPayloads ==
  UNION {[1..n -> PayloadBytes] : n \in 0..MaxPayloadLen} \cup {Pattern(n) : n \in LongLengths}

FrameCommands ==
  {CMD_HANDSHAKE_1, CMD_HANDSHAKE_2, CMD_HANDSHAKE_INFO, CMD_HANDSHAKE_4,
   CMD_SESSION_KEY, CMD_CHARGER_STATUS_FULL, CMD_CHARGER_STATUS_AUX,
   CMD_CHARGER_STATUS_LIVE, CMD_STATUS_FULL, CMD_STATUS_ALT_FULL, CMD_STATUS_LIVE,
   CMD_CHARGER_PORT_SWITCH}

FrameGroups == {GROUP_HANDSHAKE, GROUP_STATUS, GROUP_ACTION}

FrameInputs ==
  {[NoInput EXCEPT !.kind = "raw", !.payload = p] : p \in RawPayloads}
  \cup {[NoInput EXCEPT !.kind = "request", !.command = c, !.group = g, !.tlvArray = t] :
          c \in FrameCommands, g \in FrameGroups,
          t \in {<<>>, <<Tlv(TagA1, <<33>>)>>}}
  \cup {[NoInput EXCEPT !.kind = "encrypted", !.command = c, !.group = g, !.cipherText = ct] :
          c \in FrameCommands, g \in FrameGroups,
          ct \in {Pattern(16), Pattern(32)}}

InitFrame ==
  /\ svc = InitSvc("Powerbank")
  /\ env = InitEnv(FALSE, 0, 0, 0)
  /\ waiters = {}
  /\ tasks = {}
  /\ th = [t \in Threads |-> IdleThread]
  /\ wire = <<>>
  /\ out = <<>>
  /\ \E input \in FrameInputs : codec = [NoCodec EXCEPT !.op = "input", !.input = input]

\* the payload is built: buildRequestContent, buildEncryptedPayload, or given
BuildPayload ==
  /\ codec.op = "input"
  /\ LET input == codec.input
         payload ==
           CASE input.kind = "request" ->
                  buildRequestContent(input.command, input.tlvArray, input.group)
             [] input.kind = "encrypted" ->
                  buildEncryptedPayload(input.group, input.command, input.cipherText)
             [] OTHER -> input.payload
     IN codec' = [codec EXCEPT !.op = "payload", !.payload = payload]
  /\ UNCHANGED <<svc, waiters, tasks, th, wire, out, env>>

\* sendPayload: framePacket(payload)
FramePacket ==
  /\ codec.op = "payload"
  /\ codec' = [codec EXCEPT !.op = "framed", !.frame = framePacket(codec.payload)]
  /\ UNCHANGED <<svc, waiters, tasks, th, wire, out, env>>

\* the frame comes back as a notification: handleNotification strips it
StripFrame ==
  /\ codec.op = "framed"
  /\ codec' = [codec EXCEPT !.op = "received", !.received = payloadWithHeader(codec.frame)]
  /\ UNCHANGED <<svc, waiters, tasks, th, wire, out, env>>

NextFrame ==
  \/ BuildPayload
  \/ FramePacket
  \/ StripFrame

SpecFrame == InitFrame /\ [][NextFrame]_vars

(* ------------------------------------------------------------------ *)
(* C18 - C20: framing                                                  *)
(* ------------------------------------------------------------------ *)
Framed == codec.op \in {"framed", "received"}

Last(s) == s[Len(s)]

XorOfBytes(data) ==
  LET odd(k) == Cardinality({i \in 1..Len(data) : Bit(data[i], 2^k)}) % 2
      RECURSIVE sum(_)
      sum(k) == IF k > 7 THEN 0 ELSE odd(k) * 2^k + sum(k + 1)
  IN sum(0)

HandshakeOnePayload == <<3, 0, 1, 0, 1>>

MaxTlvRecords == 3
MaxBytesLen == 4
MaxSerialLen == 3

\* values of TLV records: empty, one byte, two bytes that look like a record
\* header, and the longest value a length byte can announce
TlvValues == {<<>>, <<7>>, <<0, TagA1>>, Pattern(255)}

TlvRecords == {Tlv(t, v) : t \in {TagA1, TagA2}, v \in TlvValues}

\* byte strings to parse: lengths 0, 1, 2 and a byte no buffer here is long
\* enough for
ParseBytes == {0, 1, 2, TagA1}

\* serial numbers as the device sends them in A4: ASCII of 3, 16 and 20
\* bytes, and short strings with bytes that are not ASCII
AsciiSerial(n) == [i \in 1..n |-> 65 + (i % 26)]

SerialBytes == {65, 128, 169, 195}

SerialInputs ==
  {AsciiSerial(n) : n \in {3, 16, 20}}
  \cup UNION {[1..n -> SerialBytes] : n \in 0..MaxSerialLen}

\* charger port records: marker, enabled flag, millivolts, milliamps, two
\* more bytes; and records cut short
PortRecord(flag, mv, ma) ==
  <<4, flag, mv % 256, mv \div 256, ma % 256, ma \div 256, 0, 0>>

PortInputs ==
  LET whole == {PortRecord(flag, mv, ma) :
                  flag \in {0, 1, 2}, mv \in {0, 5000, 20000}, ma \in {0, 1500}}
  IN whole \cup {SubSeq(r, 1, 7) : r \in whole} \cup {<<>>}

\* battery records of the comprehensive and live status: every whole-percent
\* byte with fractional bytes in and out of 0..99, and a record cut short
BatteryRecord(whole, fractional) == <<0, 0, 0, 0, 0, 0, 0, 0, whole, fractional>>

BatteryInputs ==
  LET whole == {BatteryRecord(b, f) : b \in 0..255, f \in {0, 99, 100, 255}}
  IN whole \cup {SubSeq(BatteryRecord(255, 255), 1, 9)}

\* decrypted telemetry packets: lengths below and above the 100 and 200 byte
\* limits, mode bytes in and out of 0..2, every battery byte of the C300
\* layout and battery bytes of the C1000 layout in and out of 0..100
SolixInputs ==
  {[NoSol EXCEPT !.n = n, !.m139 = m, !.b131 = b131, !.b160 = b160, !.p35 = 5] :
     n \in {99, 199, 253}, m \in {2, 3}, b131 \in 0..255, b160 \in {0, 100, 101, 255}}

CodecInputs ==
  UNION {{[NoInput EXCEPT !.kind = "records", !.tlvArray = r] :
            r \in [1..n -> TlvRecords]} : n \in 0..MaxTlvRecords}
  \cup UNION {{[NoInput EXCEPT !.kind = "bytes", !.payload = b] :
                 b \in [1..n -> ParseBytes]} : n \in 0..MaxBytesLen}
  \cup {[NoInput EXCEPT !.kind = "serial", !.payload = b] : b \in SerialInputs}
  \cup {[NoInput EXCEPT !.kind = "port", !.payload = b] : b \in PortInputs}
  \cup {[NoInput EXCEPT !.kind = "battery", !.payload = b] : b \in BatteryInputs}
  \cup {[NoInput EXCEPT !.kind = "solix", !.sol = d] : d \in SolixInputs}

InitCodec ==
  /\ svc = InitSvc("Powerbank")
  /\ env = InitEnv(FALSE, 0, 0, 0)
  /\ waiters = {}
  /\ tasks = {}
  /\ th = [t \in Threads |-> IdleThread]
  /\ wire = <<>>
  /\ out = <<>>
  /\ \E input \in CodecInputs : codec = [NoCodec EXCEPT !.op = "input", !.input = input]

CodecStep(next) ==
  /\ codec' = next
  /\ UNCHANGED <<svc, waiters, tasks, th, wire, out, env>>

\* buildTlvBuffer(records)
BuildTlv ==
  /\ codec.op = "input" /\ codec.input.kind = "records"
  /\ CodecStep([codec EXCEPT !.op = "built",
                             !.payload = buildTlvBuffer(codec.input.tlvArray)])

\* parseTlv of the buffer built, or of the bytes given
ParseTlv ==
  \/ /\ codec.op = "built"
     /\ CodecStep([codec EXCEPT !.op = "parsed", !.value = parseTlv(codec.payload)])
  \/ /\ codec.op = "input" /\ codec.input.kind = "bytes"
     /\ CodecStep([codec EXCEPT !.op = "parsed", !.value = parseTlv(codec.input.payload)])

\* parseDecryptedTlv of the bytes given
ParseDecryptedTlv ==
  /\ codec.op = "input" /\ codec.input.kind = "bytes"
  /\ CodecStep([codec EXCEPT !.op = "parsedDecrypted",
                             !.value = parseDecryptedTlv(codec.input.payload)])

\* handlePlainResponse: this.serialNumber = new TextDecoder().decode(A4)
DecodeSerial ==
  /\ codec.op = "input" /\ codec.input.kind = "serial"
  /\ CodecStep([codec EXCEPT !.op = "serial", !.value = TextDecode(codec.input.payload)])

\* handshake(): normalizeIvFromSerial(this.serialNumber), after the check
\* that the serial is not empty
NormalizeIv ==
  /\ codec.op = "serial" /\ codec.value # <<>>
  /\ CodecStep([codec EXCEPT !.op = "iv", !.payload = codec.value,
                             !.value = normalizeIvFromSerial(codec.value)])

\* parseA2687PortData of the record given
ParsePort ==
  /\ codec.op = "input" /\ codec.input.kind = "port"
  /\ CodecStep([codec EXCEPT !.op = "port",
                             !.value = parseA2687PortData(codec.input.payload)])

\* a telemetry decoder ran: the status it stored and handed to onPowerStatus
Decoded(w, op) ==
  /\ svc' = w.svc
  /\ out' = w.out
  /\ codec' = [codec EXCEPT !.op = op]
  /\ UNCHANGED <<waiters, tasks, th, wire, env>>

\* parseComprehensiveStatus of a response whose A2 is the record given
ParseComprehensive ==
  /\ codec.op = "input" /\ codec.input.kind = "battery"
  /\ Decoded(parseComprehensiveStatus(World, MapSet(EmptyMap, TagA2, codec.input.payload)),
             "comprehensive")

\* parseLivePowerStatus of a response whose A8 is the record given
ParseLive ==
  /\ codec.op = "input" /\ codec.input.kind = "battery"
  /\ Decoded(parseLivePowerStatus(World, MapSet(EmptyMap, TagA8, codec.input.payload)),
             "live")

\* parseSolixTelemetry of the decrypted packet given
ParseSolix ==
  /\ codec.op = "input" /\ codec.input.kind = "solix"
  /\ Decoded(parseSolixTelemetry(World, codec.input.sol), "solix")

NextCodec ==
  \/ BuildTlv
  \/ ParseTlv
  \/ ParseDecryptedTlv
  \/ DecodeSerial
  \/ NormalizeIv
  \/ ParsePort
  \/ ParseComprehensive
  \/ ParseLive
  \/ ParseSolix

SpecCodec == InitCodec /\ [][NextCodec]_vars

(* ------------------------------------------------------------------ *)
(* C21 - C25: the decoders                                             *)
(* ------------------------------------------------------------------ *)
\* the mapping of a list of records: each type to the value of its last record
LastWins(records) ==
  [t \in {records[i].type : i \in DOMAIN records} |->
     LET last == CHOOSE i \in DOMAIN records :
                   records[i].type = t /\ \A j \in DOMAIN records : j > i => records[j].type # t
     IN records[last].value]

\* C21: parseTlv(buildTlvBuffer(records)) maps each type of the list to the
\* value of its last record and contains no other type.
C21_TlvRoundTrip ==
  (codec.op = "parsed" /\ codec.input.kind = "records")
    => codec.value = LastWins(codec.input.tlvArray)

\* a list with the same type twice, the longest value first, was parsed back
C21_Witness ==
  /\ codec.op = "parsed" /\ codec.input.kind = "records"
  /\ Len(codec.input.tlvArray) = 3
  /\ codec.input.tlvArray[1] = Tlv(TagA1, Pattern(255))
  /\ codec.input.tlvArray[3] = Tlv(TagA1, <<7>>)
  /\ codec.value[TagA1] = <<7>>

\* the records of data that lie completely inside it, from offset s (0-based)
\* up to the first one that does not
RECURSIVE WholeRecords(_, _)
WholeRecords(data, s) ==
  IF s + 2 > Len(data) \/ s + 2 + data[s + 2] > Len(data) THEN <<>>
  ELSE <<Tlv(data[s + 1], SubSeq(data, s + 3, s + 2 + data[s + 2]))>>
         \o WholeRecords(data, s + 2 + data[s + 2])

\* C22: for every byte sequence parseTlv returns (as a mapping, last record of
\* a type winning) exactly the records that lie completely inside the buffer
\* before the first record that overruns it or has no length byte.
C22_TlvTruncation ==
  (codec.op = "parsed" /\ codec.input.kind = "bytes")
    => codec.value = LastWins(WholeRecords(codec.input.payload, 0))

\* one whole record was returned and the overrunning record after it was not
C22_Witness ==
  /\ codec.op = "parsed"
  /\ codec.input.payload = <<2, 0, 1, 2>>
  /\ DOMAIN codec.value = {2}
  /\ codec.value[2] = <<>>

\* C23: parseDecryptedTlv(D) is parseTlv of D without its first byte when D
\* starts with 0x00, and parseTlv(D) otherwise; one byte at most is skipped.
C23_PadByte ==
  codec.op = "parsedDecrypted" =>
    LET D == codec.input.payload
    IN IF D # <<>> /\ D[1] = 0 THEN codec.value = parseTlv(Tail(D))
       ELSE codec.value = parseTlv(D)

\* 00 00 01 02: only the first zero is skipped, so the record is type 0 with
\* a one-byte value
C23_Witness ==
  /\ codec.op = "parsedDecrypted"
  /\ codec.input.payload = <<0, 0, 1, 2>>
  /\ DOMAIN codec.value = {0}
  /\ codec.value[0] = <<2>>

\* C24: the IV installed at bootstrap is exactly 16 bytes: the first
\* min(16, n) raw bytes of the n-byte serial the device sent, then zero bytes.
C24_IvFromSerial ==
  codec.op = "iv" =>
    LET raw == codec.input.payload
        k == Min(16, Len(raw))
    IN /\ Len(codec.value) = 16
       /\ codec.value = SubSeq(raw, 1, k) \o Zeros(16 - k)

\* the value of a port record read directly from its bytes
PortMillivolts(r) == r[3] + 256 * r[4]

PortMilliamps(r) == r[5] + 256 * r[6]

\* C25: the charger port decoder returns Off with voltage, current and power
\* zero when the record is shorter than 8 bytes, the enabled flag is 0, or
\* millivolts and milliamps are both 0; in every other case it returns Output.
C25_ChargerPortOff ==
  codec.op = "port" =>
    LET r == codec.input.payload
        off == \/ Len(r) < 8
               \/ r[2] = 0
               \/ (PortMillivolts(r) = 0 /\ PortMilliamps(r) = 0)
    IN IF off THEN codec.value = [mode |-> "Off", voltage |-> 0, current |-> 0, power |-> 0]
       ELSE codec.value.mode = "Output"

\* a port with the enabled flag set and 0 V / 0 A was decoded as Off
C25_Witness ==
  /\ codec.op = "port"
  /\ codec.input.payload = PortRecord(1, 0, 0)
  /\ codec.value.mode = "Off"

\* the commands whose decrypted responses parseA2687Status decodes
ChargerStatusCommands ==
  {CMD_CHARGER_STATUS_FULL, CMD_CHARGER_STATUS_AUX, CMD_CHARGER_STATUS_LIVE}

\* the sum of the positive powers of the three ports of a status
PositivePortSum(status) ==
  Max(0, status.usbC1.power) + Max(0, status.usbC2.power) + Max(0, status.usbA.power)

\* the step decoded task as a charger status update
ChargerUpdate(task) ==
  /\ StatusResponse(task)
  /\ ClearAck16(task.cmd) \in ChargerStatusCommands
  /\ ~isAckOnlyStatusTlv(parseDecryptedTlv(task.f.ct.pt))

\* C26: a step that decodes a charger status update (0x0200, 0x020A, 0x0300)
\* ends with totalOutputW equal to totalInputW, both equal to the sum of the
\* positive powers of the three ports of the patched status, in the stored
\* status and in the one handed to onPowerStatus, also when the response
\* carries its own totals in A2 and A3.
C26_ChargerTotals ==
  [][ \A task \in DecryptedNow :
        ChargerUpdate(task) =>
          /\ svc'.lastPowerStatus.totalOutputW = PositivePortSum(svc'.lastPowerStatus)
          /\ svc'.lastPowerStatus.totalInputW = svc'.lastPowerStatus.totalOutputW
          /\ \E i \in 1..Len(out') : out'[i].e = "power"
          /\ \A i \in 1..Len(out') :
               out'[i].e = "power" =>
                 /\ out'[i].d.totalOutputW = PositivePortSum(out'[i].d)
                 /\ out'[i].d.totalInputW = out'[i].d.totalOutputW ]_vars

\* a response that carried 20.0 W and 30.0 W in A2 and A3 was decoded and the
\* totals are those of the two ports it switched on, 5.0 W each
C26_Witness ==
  /\ svc.lastReceivedCommand = CMD_CHARGER_STATUS_FULL
  /\ svc.chargerStatusSource = "FF09"
  /\ svc.lastPowerStatus.usbC1.power = 50
  /\ svc.lastPowerStatus.usbA.power = 50
  /\ svc.lastPowerStatus.totalOutputW = 100
  /\ svc.lastPowerStatus.totalInputW = 100
  /\ \E i \in 1..Len(out) : out[i].e = "power"

\* the battery percentages (in 0.01 %) handed to onPowerStatus by the last step
EmittedBattery ==
  {out[i].d.batteryPercent : i \in {j \in 1..Len(out) : out[j].e = "power"}}

\* C27: in every state the battery percentage of the stored status and every
\* one handed to onPowerStatus is within 0..100 %, whichever decoder produced
\* it (comprehensive, live, and the two layouts of the decrypted telemetry)
\* and whatever bytes the device sent.
C27_BatteryInRange ==
  /\ svc.lastPowerStatus.batteryPercent \in 0..10000
  /\ EmittedBattery \subseteq 0..10000

(* ------------------------------------------------------------------ *)
(* Specification: the ECDH fallback of a charger, with fair timers      *)
(* ------------------------------------------------------------------ *)
\* notifications the device delivers while the fallback runs
MaxFallbackNotifs == 6

\* a decrypted telemetry packet of the C1000 layout: 55 %, one port on
FallbackTelemetry ==
  [NoSol EXCEPT !.n = 253, !.m139 = 3, !.b160 = 55, !.p35 = 5]

\* what the device may send: a negotiation response with a valid point, one
\* whose 64 bytes are not a point of the curve, one of the wrong length, and
\* telemetry under the shared key
FallbackFrames ==
  { NegotiationFrame(77, TRUE),
    NegotiationFrame(77, FALSE),
    NegotiationFrame(50, TRUE),
    TelemetryFrame(253, TRUE, FallbackTelemetry) }

\* handshake() waits for the response to its first request, which the
\* charger never answers
FallbackHandshake ==
  [svc |-> [InitSvc("Charger") EXCEPT !.connected = TRUE, !.sessionUtcBytes = TRUE,
                                      !.resolveNextNotification = "hs"],
   waiters |-> {"hs"},
   tasks |-> {},
   th |-> [t \in Threads |->
             IF t = "hs" THEN [IdleThread EXCEPT !.op = "connect", !.pc = "hs_a", !.idx = 1]
             ELSE IdleThread],
   wire |-> <<>>,
   out |-> <<>>,
   env |-> [InitEnv(FALSE, 0, MaxFallbackNotifs, 0) EXCEPT !.link = TRUE]]

\* the response timeout has fired and startChargerEncryptedSession() has run
\* up to the write of negotiation packet 0
FallbackStart == ResponseTimeout(FallbackHandshake, "hs")

InitFallback ==
  /\ svc = FallbackStart.svc
  /\ waiters = FallbackStart.waiters
  /\ tasks = FallbackStart.tasks
  /\ th = FallbackStart.th
  /\ wire = FallbackStart.wire
  /\ out = FallbackStart.out
  /\ env = FallbackStart.env
  /\ codec = NoCodec

FallbackNotification == \E f \in FallbackFrames : Notify(f)

NextFallback ==
  \/ WriteCompletes
  \/ WriteFails
  \/ FallbackNotification
  \/ TaskSettles
  \/ FallbackTick
  \/ FallbackTimeout
  \/ GattServerDisconnected
  \/ GattDisconnectEvent

\* a setTimeout sleep of the polling loops ends and, the clock having passed
\* the deadline at some wake-up, the loop throws; a GATT write and a WebCrypto
\* operation settle
FairFallback ==
  /\ WF_vars(FallbackTick \/ FallbackTimeout)
  /\ WF_vars(WriteCompletes \/ WriteFails)
  /\ WF_vars(TaskSettles)

SpecFallback == InitFallback /\ [][NextFallback]_vars /\ FairFallback

\* startChargerEncryptedSession is running
InFallback == th["hs"].pc \in FallbackPcs

\* the step in which startChargerEncryptedSession returns or throws
FallbackEnds == InFallback /\ th'["hs"].pc = "idle"

\* connectToDevice returned in the step that produced o
ConnectReturned(o) ==
  \E i \in 1..Len(o) : o[i].e = "returned" /\ o[i].a = "hs"

\* the shared key was derived during this attempt: negotiation packet 5, which
\* handleSolixNegotiationPacket writes right after the derivation, is in the log
KeyWasEstablished ==
  \E i \in 1..Len(wire) :
    wire[i].t = "w" /\ wire[i].by = "nego" /\ wire[i].cmd = 5

\* the step returns, the shared key having been established and the last
\* check of the telemetry loop having seen telemetry
EndsKeyed ==
  /\ ConnectReturned(out')
  /\ KeyWasEstablished
  /\ svc.chargerTelemetrySeenAt

\* the step rejects with the error of a deadline
EndsTimedOut == RejectedWith(out', "hs", "Timed out waiting for charger")

\* the step rejects with the error of the write of negotiation packet 0
EndsWriteFailed ==
  /\ th["hs"].pc = "fb_w0"
  /\ RejectedWith(out', "hs", "GATT write failed")

SentPackets(log) ==
  {log[i].cmd : i \in {j \in 1..Len(log) : log[j].t = "w" /\ log[j].by = "nego"}}

\* the step handed a device response to calculateAndStoreSolixSharedKey
DerivationStarts == \E task \in tasks' \ tasks : task.k = "ecdh"

\* the step wrote negotiation packet 5
PacketFiveWritten == 5 \in SentPackets(wire') \ SentPackets(wire)

\* C29 as stated: the response handed to the key derivation is the sixth, and
\* the six negotiation packets 0..5 have been written by then.
C29_KeyFromSixthResponse ==
  [][ DerivationStarts =>
        /\ svc'.solixNegotiationPacketCount = 6
        /\ SentPackets(wire') = 0..5 ]_vars

\* C29: the response handed to the key derivation is the fifth one counted,
\* when the five negotiation packets 0..4 have been written and packet 5 has
\* not; packet 5, the sixth, is written in the step in which the derivation
\* completes and the shared key is stored.
C29_KeyFromFifthResponse ==
  [][ /\ DerivationStarts =>
           /\ svc'.solixNegotiationPacketCount = 5
           /\ SentPackets(wire') = 0..4
      /\ PacketFiveWritten =>
           /\ ~svc.solixSharedKey /\ svc'.solixSharedKey
           /\ \E task \in tasks \ tasks' : task.k = "ecdh" /\ task.f.pub ]_vars

\* the key was derived after five responses and the sixth packet then written
C29_Witness ==
  /\ svc.solixSharedKey
  /\ svc.solixNegotiationPacketCount = 5
  /\ SentPackets(wire) = 0..5
  /\ svc.cryptoState = "Session"
  /\ InFallback

\* the last two entries of the log are the write of thread t and, after it, a
\* notification: since t issued its write, the device has replied
RepliedSinceWrite(t) ==
  /\ Len(wire) >= 2
  /\ wire[Len(wire)].t = "n"
  /\ wire[Len(wire) - 1].t = "w"
  /\ wire[Len(wire) - 1].by = t

\* every notification handled since the write, had the resolver been
\* installed, resolved it at once: the link has stayed up, and there is no
\* charger pre-filter, no key to decrypt with and no operation pending
ResolvesAtOnce ==
  /\ svc.connected
  /\ svc.profile = "Powerbank"
  /\ svc.activeKey = NoKey
  /\ tasks = {}

\* the response timeout of the waiter of t fired in the step that produced o
TimedOut(o, t) ==
  \E i \in 1..Len(o) : o[i].e = "timeout" /\ o[i].a = t

\* C30: a sendAndWaitForResponse call to which the device has replied since
\* its write was issued does not time out, also when the reply was delivered
\* while the write was still pending, before the resolver was installed.
C30_ReplyBeforeResolver ==
  [][ \A t \in waiters :
        (RepliedSinceWrite(t) /\ ResolvesAtOnce) => ~TimedOut(out', t) ]_vars

\* the decrypt attempts started by the step
NewDecrypts == {task \in tasks' \ tasks : task.k = "decrypt"}

\* the step handled a notification or a value read from the characteristic
Delivered == env'.notifs < env.notifs

\* C31: every decrypt attempt, of the offset-5 candidate and of the offset-6
\* candidate alike, is started in the step that handles its notification,
\* with the key and IV installed at that moment, and keeps them until it
\* settles, whatever happens to the installed context in between.
C31_DecryptContext ==
  [][ /\ \A task \in NewDecrypts :
           /\ Delivered
           /\ task.id = NotificationId(World')
           /\ task.key = svc.activeKey /\ task.iv = svc.activeIv
           /\ task.key # NoKey /\ task.iv # NoKey
      /\ \A task \in tasks \cap tasks' :
           task.k = "decrypt" => \A other \in NewDecrypts : other.id # task.id ]_vars

\* an offset-6 attempt started under the bootstrap key is pending while the
\* installed key is already the session key
C31_Witness ==
  \E task \in tasks :
    /\ task.k = "decrypt" /\ task.i = 2
    /\ task.key = InitialKey /\ task.iv = SerialIv
    /\ svc.activeKey = SessionKey
    /\ svc.cryptoState = "Session"

(* ------------------------------------------------------------------ *)
(* Specification: a charger session, a disconnect and a new connection  *)
(* ------------------------------------------------------------------ *)
\* connection attempts after the first session, notifications and public
\* calls
MaxReconnects == 1
MaxReconnectNotifs == 1
MaxReconnectCalls == 1

\* the reply to the port switch and the reply to the first handshake request
ReconnectFrames ==
  { SessionFrame(CMD_CHARGER_PORT_SWITCH, <<Tlv(TagA1, <<0>>)>>),
    PlainFrame(CMD_HANDSHAKE_1, TRUE, <<>>) }

InitReconnect ==
  /\ svc = SessionSvc("Charger")
  /\ env = [InitEnv(FALSE, MaxReconnects, MaxReconnectNotifs, MaxReconnectCalls)
              EXCEPT !.link = TRUE]
  /\ wire = SessionWire("Charger")
  /\ waiters = {}
  /\ tasks = {}
  /\ th = [t \in Threads |-> IdleThread]
  /\ out = <<>>
  /\ codec = NoCodec

ReconnectNotification == \E f \in ReconnectFrames : Notify(f)

NextReconnect ==
  \/ CallPortSwitch
  \/ DelayElapses
  \/ EncryptCompletes
  \/ WriteCompletes
  \/ WriteFails
  \/ ReconnectNotification
  \/ TimerFires
  \/ TaskSettles
  \/ Disconnect
  \/ GattServerDisconnected
  \/ GattDisconnectEvent
  \/ ConnectToDevice
  \/ ConnectFails
  \/ HandshakeStart
  \/ FallbackTick
  \/ FallbackTimeout

SpecReconnect == InitReconnect /\ [][NextReconnect]_vars

\* handleDisconnect ran in the step
DisconnectStep ==
  \E i \in 1..Len(out') : out'[i].e = "connection" /\ out'[i].a = "false"

\* the timers of public calls made before the connection attempt in progress,
\* when the slot holds the resolver of that attempt
StaleWaiters ==
  IF th["hs"].op = "connect" /\ svc.resolveNextNotification = "hs"
    THEN waiters \ {"hs"} ELSE {}

\* C32: a step in which handleDisconnect runs leaves no response-timeout timer
\* pending, and no timer of a call made before a later connection attempt
\* fires and changes the pending slot of that attempt.
C32_NoTimerSurvivesDisconnect ==
  [][ /\ DisconnectStep => waiters' = {}
      /\ \A t \in StaleWaiters :
           TimedOut(out', t) => svc'.resolveNextNotification = "hs" ]_vars

\* C33: a step in which the response timeout of a public call's waiter fires
\* while the pending slot holds the resolver of another, newer waiter leaves
\* that resolver in the slot.
C33_TimeoutSparesNewerWaiter ==
  [][ \A t \in waiters \ {"hs"} :
        (TimedOut(out', t) /\ svc.resolveNextNotification \in waiters \ {t})
          => svc'.resolveNextNotification = svc.resolveNextNotification ]_vars

(* ------------------------------------------------------------------ *)
(* Overlapping calls with timers that fire                             *)
(* ------------------------------------------------------------------ *)
\* the setTimeout of the waiter of t runs unless the resolver cleared it
WaiterTimer(t) == t \in waiters /\ Commit(ResponseTimeout(World, t))

FairTimers == \A t \in Threads : WF_vars(WaiterTimer(t))

SpecTimers == InitOverlap /\ [][NextOverlap]_vars /\ FairTimers

ResolvedNow(o, t) ==
  \E i \in 1..Len(o) : o[i].e = "resolved" /\ o[i].a = t

\* C34: every pending waiter eventually settles, also after a disconnect has
\* emptied the slot or a newer waiter has overwritten it; a waiter settles
\* once: the step that resolves or rejects it finds it pending and leaves it
\* settled, no step does both, and the slot only holds the resolver of a
\* pending waiter.
C34_WaiterSettles ==
  /\ \A t \in Threads : (t \in waiters) ~> (t \notin waiters)
  /\ [](svc.resolveNextNotification # NoOwner
          => svc.resolveNextNotification \in waiters)
  /\ [][ \A t \in Threads :
           (ResolvedNow(out', t) \/ TimedOut(out', t))
             => /\ t \in waiters
                /\ t \notin waiters'
                /\ ~(ResolvedNow(out', t) /\ TimedOut(out', t)) ]_vars

\* the overwritten waiter of the first call has been rejected by its own timer
\* while the waiter of the second call is pending
C34_Witness ==
  /\ TimedOut(out, "u1")
  /\ "u2" \in waiters
  /\ svc.resolveNextNotification = NoOwner

\* C35: the crypto-state label agrees with the installed context: cryptoState
\* is INACTIVE exactly when neither a key nor an IV is installed, so under
\* Initial or Session both are there for encrypt and decrypt.
C35_LabelMatchesContext ==
  /\ svc.cryptoState = "INACTIVE"
       <=> (svc.activeKey = NoKey /\ svc.activeIv = NoKey)
  /\ svc.cryptoState \in {"Initial", "Session"}
       => (svc.activeKey # NoKey /\ svc.activeIv # NoKey)

\* C36: a step taken while cryptoState is Session leaves the installed key as
\* it is unless handleDisconnect ran in it; in particular the completion of a
\* key import that a 16-byte A1 response started while the state was still
\* Initial does not replace the key of an established session.
C36_SessionKeyStable ==
  [][ (svc.cryptoState = "Session" /\ svc'.activeKey # svc.activeKey)
        => \E i \in 1..Len(out') :
             out'[i].e = "connection" /\ out'[i].a = "false" ]_vars

\* the indices of the negotiation packets written so far, in the order written
NegotiationWrites(log) ==
  LET ws == SelectSeq(log, LAMBDA m : m.t = "w" /\ m.by = "nego")
  IN [i \in 1..Len(ws) |-> ws[i].cmd]

\* 0 first; then each packet is the successor of the one before it, or packet 0
\* again straight after packet 0
InIndexOrder(s) ==
  /\ s # <<>> => s[1] = 0
  /\ \A i \in 2..Len(s) : s[i] = s[i - 1] + 1 \/ (s[i] = 0 /\ s[i - 1] = 0)

UnframedFrames == {f \in HandshakeFrames : ~f.magic}

\* C38: the step that handles a notification without the magic FF 09 records
\* no command id and no encrypted flag from it, starts no decryption, decodes
\* no device information from it and raises no error.
C38_UnframedPassedThrough ==
  [][ \A f \in UnframedFrames :
        Notify(f) =>
          /\ svc'.lastReceivedCommand = svc.lastReceivedCommand
          /\ svc'.lastReceivedWasEncrypted = svc.lastReceivedWasEncrypted
          /\ svc'.serialNumber = svc.serialNumber
          /\ \A task \in tasks' \ tasks : task.k # "decrypt"
          /\ \A i \in 1..Len(out') : out'[i].e \notin {"error", "deviceInfo"} ]_vars

\* the step emitted no crypto-state and no connection-state change: the
\* function that awaited the resolved waiter neither failed nor moved on to
\* another phase
QuietStep ==
  \A i \in 1..Len(out') : out'[i].e \notin {"crypto", "connection"}

\* C39: the step that handles a notification shorter than 5 bytes resolves the
\* pending waiter, when there is one, with the raw bytes and empties the slot,
\* and apart from the slot it leaves the state of the service as it was: no
\* command id, no crypto context, no status and no negotiation state changes.
C39_ShortNotification ==
  [][ Notify(ShortFrame(3)) =>
        /\ svc.resolveNextNotification # NoOwner =>
             /\ \E i \in 1..Len(out') :
                  /\ out'[i].e = "resolved"
                  /\ out'[i].a = svc.resolveNextNotification
                  /\ out'[i].d = [kind |-> "raw", f |-> ShortFrame(3)]
             /\ svc.resolveNextNotification \notin waiters'
        /\ QuietStep => svc' = [svc EXCEPT !.resolveNextNotification = NoOwner] ]_vars

\* fullCommand of handleNotification, from the bytes of payloadWithHeader
ReceivedFullCommand(p) == CommandHighBase(p[4]) * 256 + p[5]

\* isEncrypted of handleNotification
ReceivedIsEncrypted(p) == Bit(p[4], COMMAND_FLAG_ENCRYPTED)

\* a header built for a command by buildRequestContent or buildEncryptedPayload
\* has come back through framePacket and the stripping of handleNotification
HeaderReceived ==
  codec.op = "received" /\ codec.input.kind \in {"request", "encrypted"}

\* C40 as stated: the full command computed from a header built for a known
\* command id, plain or encrypted, is that id.
C40_CommandRecovered ==
  HeaderReceived => ReceivedFullCommand(codec.received) = codec.input.command

\* C40: the full command computed from a header built for a known command id,
\* plain or encrypted, is that id for every id but 0x0D00, whose high byte
\* holds the ACK bit 0x08: for 0x0D00 it is 0x0500; the encrypted flag read
\* from the header is set exactly for the encrypted header.
C40_CommandRecoveredButAltFull ==
  HeaderReceived =>
    /\ ReceivedFullCommand(codec.received) =
         (IF codec.input.command = CMD_STATUS_ALT_FULL THEN CMD_STATUS_FULL
          ELSE codec.input.command)
    /\ ReceivedIsEncrypted(codec.received) <=> codec.input.kind = "encrypted"

\* the encrypted header built for 0x0D00 was read back as 0x0500
C40_Witness ==
  /\ HeaderReceived
  /\ codec.input.kind = "encrypted"
  /\ codec.input.command = CMD_STATUS_ALT_FULL
  /\ ReceivedFullCommand(codec.received) = CMD_STATUS_FULL

====
